---- MODULE Spec2Model ----
(***************************************************************************)
(* accinfo: the session table, the per-IP rate limiter and the             *)
(* Authentication middleware (src/src/apis/authentication.rs), with the    *)
(* endpoint handlers the middleware guards (src/src/apis/service.rs).      *)
(***************************************************************************)
EXTENDS Integers, Sequences, FiniteSets, TLC

(***************************************************************************)
(* Bounds of the model.                                                    *)
(***************************************************************************)
\* the wall clock (unix seconds) runs up to MaxTime
MaxTime == 60
\* session ids are drawn from 0..MaxId (rand::random::<u64>() in the source)
MaxId == 1
\* the session table holds at most MaxSessions entries
MaxSessions == 3
\* over HTTP, login is served while the table holds fewer than MaxLogins entries
MaxLogins == 1
\* no address is counted more than MaxVisits times by the rate limiter
MaxVisits == 4
\* IPv4 client addresses are 0.0.0.1 .. 0.0.0.NumIps, as u32
NumIps == 1
\* worker threads of the multi_thread build
NumThreads == 2

\* crate::SESS_EXP_SECS, the session time to live in seconds
SESS_EXP_SECS == 2
\* AppGlobal.cache_expire, the idle time in seconds after which the record
\* cache is dropped
CacheExpire == 1
\* AppGlobal.task_interval, the period in seconds of the maintenance task
TaskInterval == 1

\* the ids of the token conversions reach the hexadecimal digit 16^MaxShift
MaxShift == 5

(***************************************************************************)
(* Program constants.                                                      *)
(***************************************************************************)
MAX_CURRENT_LIMITING == 3
\* session_id gives up once more than MaxAttempts regenerations were made
MaxAttempts == 10000
\* seconds per rate window: STATIS_TIME is commented "1分钟变更1次，按分钟限流"
WindowSecs == 60
\* width of the formatted token, format!("{:016x}", id)
TokenWidth == 16

\* the clock starts two seconds before a minute boundary
StartTime == WindowSecs - 2

SESSION == <<"s", "e", "s", "s", "i", "o", "n", " ">>

Ids == 0 .. MaxId
Ips == 1 .. NumIps
Threads == 1 .. NumThreads

\* Option<T>: None is the empty sequence, Some(v) is <<v>>
None == <<>>
Some(v) == <<v>>
IsSome(o) == Len(o) = 1
Unwrap(o) == o[1]

(***************************************************************************)
(* Text: a string is a sequence of one-character strings.                  *)
(***************************************************************************)
LowerHex == <<"0", "1", "2", "3", "4", "5", "6", "7", "8", "9",
              "a", "b", "c", "d", "e", "f">>
UpperHex == <<"0", "1", "2", "3", "4", "5", "6", "7", "8", "9",
              "A", "B", "C", "D", "E", "F">>

IsHexDigit(c) == \E i \in 1 .. 16 : LowerHex[i] = c \/ UpperHex[i] = c
\* char::to_digit(16)
to_digit(c) == (CHOOSE i \in 1 .. 16 : LowerHex[i] = c \/ UpperHex[i] = c) - 1

starts_with(s, p) == Len(s) >= Len(p) /\ SubSeq(s, 1, Len(p)) = p

RECURSIVE HexDigits(_)
\* the hexadecimal digits of n, most significant first, without padding
HexDigits(n) ==
    IF n < 16 THEN <<LowerHex[n + 1]>>
    ELSE Append(HexDigits(n \div 16), LowerHex[(n % 16) + 1])

RECURSIVE PadLeft(_, _)
PadLeft(s, w) == IF Len(s) >= w THEN s ELSE PadLeft(<<"0">> \o s, w)

\* format!("{:x}", id): no width, no zero fill
format_x(id) == HexDigits(id)

\* format!("{:016x}", id)
format_016x(id) == PadLeft(HexDigits(id), TokenWidth)

RECURSIVE StripZeros(_)
StripZeros(s) ==
    IF Len(s) > 1 /\ s[1] = "0" THEN StripZeros(Tail(s)) ELSE s

RECURSIVE DigitsValue(_, _)
DigitsValue(s, acc) ==
    IF s = <<>> THEN acc ELSE DigitsValue(Tail(s), acc * 16 + to_digit(s[1]))

\* u64::from_str_radix(s, 16): an optional "+", then one or more hex digits
\* of either case; more than 16 significant digits overflow u64
from_str_radix(s) ==
    LET digits == IF s # <<>> /\ s[1] = "+" THEN Tail(s) ELSE s
    IN  IF digits = <<>> THEN None
        ELSE IF \E i \in 1 .. Len(digits) : ~IsHexDigit(digits[i]) THEN None
        ELSE IF Len(StripZeros(digits)) > TokenWidth THEN None
        ELSE Some(DigitsValue(digits, 0))

\* HeaderValue::to_str succeeds on visible ASCII only; "\xE9" stands for a
\* byte outside that range
to_str_ok(s) == \A i \in 1 .. Len(s) : s[i] # "\\xE9"

Str_api == <<"/", "a", "p", "i", "/">>
PathPing == Str_api \o <<"p", "i", "n", "g">>
PathLogin == Str_api \o <<"l", "o", "g", "i", "n">>
PathLogout == Str_api \o <<"l", "o", "g", "o", "u", "t">>
PathList == Str_api \o <<"l", "i", "s", "t">>
PathOther == Str_api \o <<"x">>
PathIndex == <<"/", "i", "n", "d", "e", "x">>

(***************************************************************************)
(* The session table: Authentication::{recycle, check_session, session_id} *)
(***************************************************************************)
SessionItem(id, exp) == [id |-> id, exp |-> exp]

\* recycle that removes nothing
recycle_keep_all(sessions, t) == sessions

\* recycle keeping the entries that expire at this instant
recycle_keep_due(sessions, t) ==
    LET live(v) == v.exp >= t IN SelectSeq(sessions, live)

\* sessions.retain(|v| v.exp > now)
recycle(sessions, t) ==
    LET live(v) == v.exp > t IN SelectSeq(sessions, live)

\* check_session taking an entry for live up to and including its expiry
check_session_late(sessions, id, t) ==
    LET hits == {i \in 1 .. Len(sessions) :
                    sessions[i].id = id /\ sessions[i].exp >= t}
    IN  IF hits = {} THEN [res |-> FALSE, sessions |-> sessions]
        ELSE LET i == CHOOSE k \in hits : \A j \in hits : k <= j
             IN  [res |-> TRUE,
                  sessions |-> [sessions EXCEPT ![i].exp = t + SESS_EXP_SECS]]

\* check_session extending the expiry from its old value instead of from now
check_session_extend(sessions, id, t) ==
    LET hits == {i \in 1 .. Len(sessions) :
                    sessions[i].id = id /\ sessions[i].exp > t}
    IN  IF hits = {} THEN [res |-> FALSE, sessions |-> sessions]
        ELSE LET i == CHOOSE k \in hits : \A j \in hits : k <= j
             IN  [res |-> TRUE,
                  sessions |-> [sessions EXCEPT
                                   ![i].exp = sessions[i].exp + SESS_EXP_SECS]]

\* the first entry with the id that has not expired gets exp = now + TTL
check_session(sessions, id, t) ==
    LET hits == {i \in 1 .. Len(sessions) :
                    sessions[i].id = id /\ sessions[i].exp > t}
    IN  IF hits = {} THEN [res |-> FALSE, sessions |-> sessions]
        ELSE LET i == CHOOSE k \in hits : \A j \in hits : k <= j
             IN  [res |-> TRUE,
                  sessions |-> [sessions EXCEPT ![i].exp = t + SESS_EXP_SECS]]

RECURSIVE scan_ids(_, _, _, _, _, _)
\* the for loop of session_id: one pass over the table from entry i on;
\* `continue` resumes the pass at the next entry with the regenerated id,
\* and the enclosing loop is left after the pass
scan_ids(sessions, i, id, count, draws, k) ==
    IF i > Len(sessions) THEN [ok |-> TRUE, id |-> id]
    ELSE IF sessions[i].id = id
         THEN IF count > MaxAttempts THEN [ok |-> FALSE, id |-> id]
              ELSE scan_ids(sessions, i + 1, draws[k], count + 1, draws, k + 1)
         ELSE scan_ids(sessions, i + 1, id, count, draws, k)

\* draws: the values rand::random() returns, in order
session_id(sessions, draws, t) ==
    LET r == scan_ids(sessions, 1, draws[1], 0, draws, 2)
    IN  IF r.ok
        THEN [ok |-> TRUE, id |-> r.id, token |-> format_016x(r.id),
              sessions |-> Append(sessions, SessionItem(r.id, t + SESS_EXP_SECS))]
        ELSE [ok |-> FALSE, id |-> r.id, token |-> <<>>, sessions |-> sessions]

\* get_session_id cutting the scheme one character short
get_session_id_short(auth) ==
    IF IsSome(auth) /\ to_str_ok(Unwrap(auth)) /\ starts_with(Unwrap(auth), SESSION)
    THEN from_str_radix(SubSeq(Unwrap(auth), Len(SESSION), Len(Unwrap(auth))))
    ELSE None

\* get_session_id: the Authorization header value, if any, parsed to an id
get_session_id(auth) ==
    IF IsSome(auth) /\ to_str_ok(Unwrap(auth)) /\ starts_with(Unwrap(auth), SESSION)
    THEN from_str_radix(SubSeq(Unwrap(auth), Len(SESSION) + 1, Len(Unwrap(auth))))
    ELSE None

\* Authentication::remove_session_id is called by logout but its body is not
\* part of the sources: the entry of the request's token is deleted
remove_session_id(sessions, auth) ==
    LET tok == get_session_id(auth)
        keep(v) == v.id # Unwrap(tok)
    IN  IF IsSome(tok) THEN SelectSeq(sessions, keep) ELSE sessions

(***************************************************************************)
(* The rate limiter: Authentication::check_limit                           *)
(***************************************************************************)
\* check_limit storing the new time without clearing the table
check_limit_noclear(limits, t, statis_read, statis, ip) ==
    LET reset == t > statis_read
        cnt == (IF ip \in DOMAIN limits THEN limits[ip] ELSE 0) + 1
    IN  [res |-> cnt <= MAX_CURRENT_LIMITING,
         reset |-> reset,
         statis |-> IF reset THEN t ELSE statis,
         limits |-> [a \in (DOMAIN limits) \cup {ip} |->
                        IF a = ip THEN cnt ELSE limits[a]]]

\* the locked part of check_limit, given the values of now and STATIS_TIME
\* the caller read before it took the lock
check_limit_locked(limits, t, statis_read, statis, ip) ==
    LET reset == t > statis_read
        base == IF reset THEN << >> ELSE limits
        cnt == (IF ip \in DOMAIN base THEN base[ip] ELSE 0) + 1
    IN  [res |-> cnt <= MAX_CURRENT_LIMITING,
         reset |-> reset,
         statis |-> IF reset THEN t ELSE statis,
         limits |-> [a \in (DOMAIN base) \cup {ip} |->
                        IF a = ip THEN cnt ELSE base[a]]]

\* the count the table holds for ip
Visits(limits, ip) == IF ip \in DOMAIN limits THEN limits[ip] ELSE 0

\* check_limit run without interleaving: STATIS_TIME is read as it is
check_limit(limits, statis, ip, t) ==
    check_limit_locked(limits, t, statis, statis, ip)

\* an X-Real-IP value spells an IPv4 address or does not parse;
\* a peer address is IPv4 with its u32 value, or IPv6
IpText(a) == [parses |-> TRUE, ip |-> a]
NotAnIp == [parses |-> FALSE, ip |-> 0]
V4(a) == [v4 |-> TRUE, ip |-> a]
V6 == [v4 |-> FALSE, ip |-> 0]

\* get_remote_ip: the X-Real-IP header if it parses, else the peer address,
\* 0.0.0.0 for an IPv6 peer
get_remote_ip(xreal, addr) ==
    IF IsSome(xreal) /\ Unwrap(xreal).parses THEN Unwrap(xreal).ip
    ELSE IF addr.v4 THEN addr.ip ELSE 0

\* require_authentication exempting /api/logout as well
require_authentication_logout(path) ==
    /\ starts_with(path, Str_api)
    /\ path # PathPing /\ path # PathLogin /\ path # PathLogout

\* require_authentication without the exemption of /api/login
require_authentication_login(path) ==
    starts_with(path, Str_api) /\ path # PathPing

\* require_authentication without the exemption of /api/ping
require_authentication_ping(path) ==
    starts_with(path, Str_api) /\ path # PathLogin

require_authentication(path) ==
    starts_with(path, Str_api) /\ path # PathPing /\ path # PathLogin

(***************************************************************************)
(* The database file and the record cache (src/src/aidb.rs). Bytes are the *)
(* integers 0..255 and texts are their ASCII bytes. Md5 and the AES-CTR    *)
(* key stream are deterministic stand-ins with the interface of the real   *)
(* functions: 16 bytes from any bytes, and one key-stream byte per         *)
(* position from the two digests.                                          *)
(***************************************************************************)
\* "The great rejuvenation of the Chinese nation"
IV == <<84, 104, 101, 32, 103, 114, 101, 97, 116, 32, 114, 101, 106, 117,
        118, 101, 110, 97, 116, 105, 111, 110, 32, 111, 102, 32, 116, 104,
        101, 32, 67, 104, 105, 110, 101, 115, 101, 32, 110, 97, 116, 105,
        111, 110>>
\* b"aidb"
MAGIC == <<97, 105, 100, 98>>
MAGIC_LEN == 4
HEADER_LEN == MAGIC_LEN + 4
ATTACH_LEN == HEADER_LEN + 16

\* str::as_bytes of the passwords of the model
as_bytes(s) ==
    CASE s = "correct" -> <<99, 111, 114, 114, 101, 99, 116>>
      [] s = "wrong" -> <<119, 114, 111, 110, 103>>
      [] OTHER -> <<>>

RECURSIVE Md5Sum(_, _, _, _)
\* the sum of (j + i) * data[j] over lo <= j <= hi, modulo 256
Md5Sum(data, i, lo, hi) ==
    IF lo > hi THEN 0
    ELSE IF lo = hi THEN ((lo + i) * data[lo]) % 256
    ELSE LET mid == (lo + hi) \div 2
         IN  (Md5Sum(data, i, lo, mid) + Md5Sum(data, i, mid + 1, hi)) % 256

\* Md5 of data: 16 bytes, each depending on every byte of data and on its
\* position
Md5(data) ==
    [i \in 1 .. 16 |-> (Md5Sum(data, i, 1, Len(data)) + 17 * i + Len(data)) % 256]

RECURSIVE BitXor(_, _)
BitXor(a, b) ==
    IF a = 0 /\ b = 0 THEN 0
    ELSE ((a + b) % 2) + 2 * BitXor(a \div 2, b \div 2)

\* the byte of the Ctr64LE<Aes128> key stream at position i (from 1)
KeyStream(key_md5, iv_md5, i) ==
    LET k == ((i - 1) % 16) + 1
    IN  (key_md5[k] + 3 * iv_md5[k] + 5 * ((i - 1) \div 16) + 7 * k) % 256

\* MyAes::new(key) followed by MyAes::encrypt(data): apply_keystream
apply_keystream(key, data) ==
    LET key_md5 == Md5(key)
        iv_md5 == Md5(IV)
    IN  [i \in 1 .. Len(data) |-> BitXor(data[i], KeyStream(key_md5, iv_md5, i))]

aes_encrypt(key, data) == apply_keystream(key, data)
aes_decrypt(key, data) == apply_keystream(key, data)

\* md5_check_text leaving the password out of the digest
md5_check_text_nopass(password) == Md5(IV)

\* md5 of the password followed by IV
md5_check_text(password) == Md5(as_bytes(password) \o IV)

\* struct Record, its fields as bytes
Record(id, title, user, pass, url, notes) ==
    [id |-> id, title |-> title, user |-> user, pass |-> pass, url |-> url,
     notes |-> notes]

\* json_chars writing every character as it is
json_chars_raw(v) == v

RECURSIVE json_chars(_)
\* the characters of a JSON string: quote and backslash are escaped
json_chars(v) ==
    IF v = <<>> THEN <<>>
    ELSE (IF v[1] \in {34, 92} THEN <<92, v[1]>> ELSE <<v[1]>>)
         \o json_chars(Tail(v))

json_string(v) == <<34>> \o json_chars(v) \o <<34>>

\* the keys of a Record as serde writes them, with the punctuation before
\* each: {"id":  ,"title":  ,"user":  ,"pass":  ,"url":  ,"notes":
RecordKeys ==
    << <<123, 34, 105, 100, 34, 58>>,
       <<44, 34, 116, 105, 116, 108, 101, 34, 58>>,
       <<44, 34, 117, 115, 101, 114, 34, 58>>,
       <<44, 34, 112, 97, 115, 115, 34, 58>>,
       <<44, 34, 117, 114, 108, 34, 58>>,
       <<44, 34, 110, 111, 116, 101, 115, 34, 58>> >>

RecordValues(r) == <<r.id, r.title, r.user, r.pass, r.url, r.notes>>

json_record(r) ==
    LET v == RecordValues(r)
    IN  RecordKeys[1] \o json_string(v[1]) \o RecordKeys[2] \o json_string(v[2])
        \o RecordKeys[3] \o json_string(v[3]) \o RecordKeys[4] \o json_string(v[4])
        \o RecordKeys[5] \o json_string(v[5]) \o RecordKeys[6] \o json_string(v[6])
        \o <<125>>

RECURSIVE json_records(_)
json_records(recs) ==
    IF recs = <<>> THEN <<>>
    ELSE json_record(recs[1])
         \o (IF Len(recs) > 1 THEN <<44>> ELSE <<>>) \o json_records(Tail(recs))

\* serde_json::to_vec(&recs): the compact form, [ records , ... ]
to_vec(recs) == <<91>> \o json_records(recs) \o <<93>>

\* position after the literal lit at position pos of b, or 0
Expect(b, pos, lit) ==
    IF pos > 0 /\ pos + Len(lit) - 1 <= Len(b)
          /\ SubSeq(b, pos, pos + Len(lit) - 1) = lit
    THEN pos + Len(lit) ELSE 0

RECURSIVE parse_chars(_, _, _)
\* the characters of a JSON string up to its closing quote
parse_chars(b, pos, acc) ==
    IF pos > Len(b) \/ b[pos] < 32 THEN [pos |-> 0, val |-> <<>>]
    ELSE IF b[pos] = 34 THEN [pos |-> pos + 1, val |-> acc]
    ELSE IF b[pos] = 92
         THEN IF pos + 1 <= Len(b) /\ b[pos + 1] \in {34, 92}
              THEN parse_chars(b, pos + 2, Append(acc, b[pos + 1]))
              ELSE [pos |-> 0, val |-> <<>>]
    ELSE parse_chars(b, pos + 1, Append(acc, b[pos]))

parse_string(b, pos) ==
    IF Expect(b, pos, <<34>>) = 0 THEN [pos |-> 0, val |-> <<>>]
    ELSE parse_chars(b, pos + 1, <<>>)

RECURSIVE parse_fields(_, _, _, _)
\* the fields of one record from field k on, in the order serde wrote them
parse_fields(b, pos, k, acc) ==
    IF k > Len(RecordKeys) THEN [pos |-> Expect(b, pos, <<125>>), val |-> acc]
    ELSE LET f == parse_string(b, Expect(b, pos, RecordKeys[k]))
         IN  IF f.pos = 0 THEN [pos |-> 0, val |-> acc]
             ELSE parse_fields(b, f.pos, k + 1, Append(acc, f.val))

RECURSIVE parse_records(_, _, _)
parse_records(b, pos, acc) ==
    LET r == parse_fields(b, pos, 1, <<>>)
        v == r.val
        more == Append(acc, Record(v[1], v[2], v[3], v[4], v[5], v[6]))
    IN  IF r.pos = 0 THEN [ok |-> FALSE, recs |-> <<>>]
        ELSE IF Expect(b, r.pos, <<44>>) # 0
             THEN parse_records(b, r.pos + 1, more)
        ELSE IF Expect(b, r.pos, <<93>>) = Len(b) + 1
             THEN [ok |-> TRUE, recs |-> more]
        ELSE [ok |-> FALSE, recs |-> <<>>]

\* serde_json::from_slice::<Records>, for text in the compact form to_vec
\* writes; any other text is refused
from_slice(b) ==
    IF b = <<91, 93>> THEN [ok |-> TRUE, recs |-> <<>>]
    ELSE IF Expect(b, 1, <<91>>) = 0 THEN [ok |-> FALSE, recs |-> <<>>]
    ELSE parse_records(b, 2, <<>>)

\* the 4 bytes of the length written least significant first
le32(n) ==
    <<n % 256, (n \div 256) % 256, (n \div 65536) % 256, (n \div 16777216) % 256>>

\* the length of the cipher text as 4 bytes, most significant first
be32(n) ==
    <<(n \div 16777216) % 256, (n \div 65536) % 256, (n \div 256) % 256, n % 256>>

\* (buf[4] << 24) | (buf[5] << 16) | (buf[6] << 8) | buf[7]
read_be32(buf) ==
    buf[5] * 16777216 + buf[6] * 65536 + buf[7] * 256 + buf[8]

\* the bytes encrypt_database writes to out_file for the records load_xml
\* found
encrypt_database(recs, password) ==
    LET recs_json == aes_encrypt(as_bytes(password), to_vec(recs))
    IN  MAGIC \o be32(Len(recs_json)) \o md5_check_text(password) \o recs_json

\* the passwords of the model: none stored yet, the file's, another one
Passwords == {"", "correct", "wrong"}

\* md5_check_text of every password of the model, tabulated
CheckTextOf == [p \in Passwords |-> md5_check_text(p)]

\* the records of the model's database; the notes of the second need escapes
Rec1 ==
    Record(<<49>>, <<98, 97, 110, 107>>, <<97, 108>>, <<112, 119>>,
           <<98, 46, 105, 111>>, <<>>)
Rec2 ==
    Record(<<50>>, <<109, 97, 105, 108>>, <<>>, <<>>, <<>>,
           <<98, 97, 110, 107, 32, 34, 92, 34>>)

\* a database file: whether it exists, the stem of its name, its content
ValidFile ==
    [exists |-> TRUE, stem |-> "alice",
     bytes |-> encrypt_database(<<Rec1, Rec2>>, "correct")]
MissingFile == [ValidFile EXCEPT !.exists = FALSE]
Files == {ValidFile, MissingFile}

\* check_password comparing the check value before the length field
check_password_check_first(file, password) ==
    LET flen == Len(file.bytes)
        buf == SubSeq(file.bytes, 1, ATTACH_LEN)
    IN  IF ~file.exists THEN [err |-> "io", ok |-> FALSE]
        ELSE IF flen < ATTACH_LEN
             THEN [err |-> "database size too small", ok |-> FALSE]
        ELSE IF MAGIC # SubSeq(buf, 1, MAGIC_LEN)
             THEN [err |-> "database is not aidb format", ok |-> FALSE]
        ELSE IF CheckTextOf[password] # SubSeq(buf, HEADER_LEN + 1, ATTACH_LEN)
             THEN [err |-> "", ok |-> FALSE]
        ELSE IF read_be32(buf) # flen - ATTACH_LEN
             THEN [err |-> "database size format error", ok |-> FALSE]
        ELSE [err |-> "", ok |-> TRUE]

\* check_password: Ok(true), Ok(false) or Err(message); only the first
\* ATTACH_LEN bytes of the file are read
check_password(file, password) ==
    LET flen == Len(file.bytes)
        buf == SubSeq(file.bytes, 1, ATTACH_LEN)
    IN  IF ~file.exists THEN [err |-> "io", ok |-> FALSE]
        ELSE IF flen < ATTACH_LEN
             THEN [err |-> "database size too small", ok |-> FALSE]
        ELSE IF MAGIC # SubSeq(buf, 1, MAGIC_LEN)
             THEN [err |-> "database is not aidb format", ok |-> FALSE]
        ELSE IF read_be32(buf) # flen - ATTACH_LEN
             THEN [err |-> "database size format error", ok |-> FALSE]
        ELSE [err |-> "",
              ok |-> CheckTextOf[password] = SubSeq(buf, HEADER_LEN + 1, ATTACH_LEN)]

\* decode comparing the check value before the length field
decode_check_first(buf, password) ==
    LET fail(e) == [err |-> e, recs |-> <<>>]
        plain == aes_decrypt(as_bytes(password),
                             SubSeq(buf, ATTACH_LEN + 1, Len(buf)))
        parsed == from_slice(plain)
    IN  IF Len(buf) < ATTACH_LEN THEN fail("database size too small")
        ELSE IF MAGIC # SubSeq(buf, 1, MAGIC_LEN)
             THEN fail("database is not aidb format")
        ELSE IF md5_check_text(password) # SubSeq(buf, HEADER_LEN + 1, ATTACH_LEN)
             THEN fail("password error")
        ELSE IF read_be32(buf) # Len(buf) - ATTACH_LEN
             THEN fail("database size format error")
        ELSE IF ~parsed.ok THEN fail("json")
        ELSE [err |-> "", recs |-> parsed.recs]

\* decode comparing the length field before the magic
decode_length_first(buf, password) ==
    LET fail(e) == [err |-> e, recs |-> <<>>]
        plain == aes_decrypt(as_bytes(password),
                             SubSeq(buf, ATTACH_LEN + 1, Len(buf)))
        parsed == from_slice(plain)
    IN  IF Len(buf) < ATTACH_LEN THEN fail("database size too small")
        ELSE IF read_be32(buf) # Len(buf) - ATTACH_LEN
             THEN fail("database size format error")
        ELSE IF MAGIC # SubSeq(buf, 1, MAGIC_LEN)
             THEN fail("database is not aidb format")
        ELSE IF md5_check_text(password) # SubSeq(buf, HEADER_LEN + 1, ATTACH_LEN)
             THEN fail("password error")
        ELSE IF ~parsed.ok THEN fail("json")
        ELSE [err |-> "", recs |-> parsed.recs]

\* the part of load_database after std::fs::read: the checks of the bytes
\* read, in their order, then aes_decrypt and serde_json::from_slice
decode(buf, password) ==
    LET fail(e) == [err |-> e, recs |-> <<>>]
        plain == aes_decrypt(as_bytes(password),
                             SubSeq(buf, ATTACH_LEN + 1, Len(buf)))
        parsed == from_slice(plain)
    IN  IF Len(buf) < ATTACH_LEN THEN fail("database size too small")
        ELSE IF MAGIC # SubSeq(buf, 1, MAGIC_LEN)
             THEN fail("database is not aidb format")
        ELSE IF read_be32(buf) # Len(buf) - ATTACH_LEN
             THEN fail("database size format error")
        ELSE IF md5_check_text(password) # SubSeq(buf, HEADER_LEN + 1, ATTACH_LEN)
             THEN fail("password error")
        ELSE IF ~parsed.ok THEN fail("json")
        ELSE [err |-> "", recs |-> parsed.recs]

\* the record sets of the model
RecordSets == {<<>>, <<Rec1>>, <<Rec1, Rec2>>, <<Rec2, Rec1>>}

\* encrypt_database of every record set and password of the model, tabulated
EncodeOf ==
    [recs \in RecordSets |-> [p \in Passwords |-> encrypt_database(recs, p)]]

\* file contents that are not what encrypt_database wrote: b cut short
\* (with and without its magic), with another magic, length field or check
\* value, with a byte too few or a damaged payload, and combinations
Damaged(b) ==
    LET n == Len(b) - ATTACH_LEN
    IN  {<<>>,
         SubSeq(b, 1, MAGIC_LEN - 1),
         SubSeq(b, 1, ATTACH_LEN - 1),
         [SubSeq(b, 1, ATTACH_LEN - 1) EXCEPT ![1] = 0],
         [b EXCEPT ![1] = 0],
         [b EXCEPT ![1] = 0, ![HEADER_LEN] = (@ + 1) % 256,
                   ![HEADER_LEN + 1] = (@ + 1) % 256],
         [b EXCEPT ![HEADER_LEN] = (@ + 1) % 256],
         [b EXCEPT ![HEADER_LEN] = (@ + 1) % 256,
                   ![HEADER_LEN + 1] = (@ + 1) % 256],
         SubSeq(b, 1, Len(b) - 1),
         [b EXCEPT ![HEADER_LEN + 1] = (@ + 1) % 256],
         [b EXCEPT ![ATTACH_LEN + 1] = BitXor(@, 1)],
         MAGIC \o be32(n - 1) \o SubSeq(b, HEADER_LEN + 1, Len(b) - 1)}

\* the file contents of the model
Contents ==
    {EncodeOf[recs][p] : recs \in RecordSets, p \in Passwords}
    \cup Damaged(ValidFile.bytes)

\* the database files of the model
DbFiles ==
    {[ValidFile EXCEPT !.bytes = b] : b \in Contents} \cup {MissingFile}

\* decode of every content and password of the model, tabulated
DecodeOf == [buf \in Contents |-> [p \in Passwords |-> decode(buf, p)]]

\* load_database reading the file on every call: a good decode replaces the
\* slot, a failed one clears it
load_database_reload(cache, file, password, t) ==
    LET fail(e) == [err |-> e, cache |-> None, data |-> <<>>, read |-> TRUE]
        d == DecodeOf[file.bytes][password]
    IN  IF ~file.exists THEN fail("io")
        ELSE IF d.err # "" THEN fail(d.err)
        ELSE [err |-> "", cache |-> Some([data |-> d.recs, time |-> t]),
              data |-> d.recs, read |-> TRUE]

\* load_database caching an empty record set when the payload does not parse
load_database_sticky(cache, file, password, t) ==
    LET fail(e) == [err |-> e, cache |-> cache, data |-> <<>>, read |-> TRUE]
        d == DecodeOf[file.bytes][password]
    IN  IF IsSome(cache)
        THEN [err |-> "", cache |-> Some([Unwrap(cache) EXCEPT !.time = t]),
              data |-> Unwrap(cache).data, read |-> FALSE]
        ELSE IF ~file.exists THEN fail("io")
        ELSE IF d.err = "json"
             THEN [fail(d.err) EXCEPT !.cache = Some([data |-> <<>>, time |-> t])]
        ELSE IF d.err # "" THEN fail(d.err)
        ELSE [err |-> "", cache |-> Some([data |-> d.recs, time |-> t]),
              data |-> d.recs, read |-> TRUE]

\* load_database checking the password against the file on the warm path too
load_database_recheck(cache, file, password, t) ==
    LET fail(e) == [err |-> e, cache |-> cache, data |-> <<>>, read |-> TRUE]
        d == DecodeOf[file.bytes][password]
    IN  IF ~file.exists THEN fail("io")
        ELSE IF d.err # "" THEN fail(d.err)
        ELSE IF IsSome(cache)
        THEN [err |-> "", cache |-> Some([Unwrap(cache) EXCEPT !.time = t]),
              data |-> Unwrap(cache).data, read |-> TRUE]
        ELSE [err |-> "", cache |-> Some([data |-> d.recs, time |-> t]),
              data |-> d.recs, read |-> TRUE]

\* load_database: the cached records if the slot is populated, else the
\* file is read, checked, decrypted, parsed and cached. read tells whether
\* std::fs::read was called, data is the record set returned
load_database(cache, file, password, t) ==
    LET fail(e) == [err |-> e, cache |-> cache, data |-> <<>>, read |-> TRUE]
        d == DecodeOf[file.bytes][password]
    IN  IF IsSome(cache)
        THEN [err |-> "", cache |-> Some([Unwrap(cache) EXCEPT !.time = t]),
              data |-> Unwrap(cache).data, read |-> FALSE]
        ELSE IF ~file.exists THEN fail("io")
        ELSE IF d.err # "" THEN fail(d.err)
        ELSE [err |-> "", cache |-> Some([data |-> d.recs, time |-> t]),
              data |-> d.recs, read |-> TRUE]

\* recycle_cache that leaves the slot as it is
recycle_cache_never(cache, expire, t) == cache

\* recycle_cache clearing the slot as soon as the idle time reaches expire
recycle_cache_eager(cache, expire, t) ==
    IF IsSome(cache) /\ t - Unwrap(cache).time >= expire THEN None ELSE cache

\* recycle_cache(expire)
recycle_cache(cache, expire, t) ==
    IF IsSome(cache) /\ t - Unwrap(cache).time > expire THEN None ELSE cache

(***************************************************************************)
(* State                                                                   *)
(***************************************************************************)
VARIABLES
    now,                \* SystemTime::now(), unix seconds
    dbfile,             \* the file AppConf.database names
    PASSWORD,           \* service.rs: the password of the last good login
    G_RECS,             \* aidb.rs: the cache slot
    SESSIONS,           \* authentication.rs: the session table
    STATIS_TIME,        \* authentication.rs: time of the last limiter reset
    CURRENT_LIMITINGS,  \* authentication.rs: ip -> requests counted
    pc,                 \* multi_thread build: each worker's place in check_limit
    loc,                \* multi_thread build: each worker's locals
    hist,               \* history of the calls made so far
    last                \* history: what the last operation did and answered

vars == <<now, dbfile, PASSWORD, G_RECS, SESSIONS, STATIS_TIME,
          CURRENT_LIMITINGS, pc, loc, hist, last>>

\* last: the operation, its inputs (path, auth, ip, tok), what the
\* middleware called and got (extract, limit, valid, next), the answer (status, code,
\* message, token), what hist held for the token when it was called (made,
\* gone), and for check_limit the count the table held for ip before the
\* call (prev) and whether the call cleared the table (reset)
NoLast == [op |-> "none", path |-> <<>>, auth |-> None, ip |-> 0,
           tok |-> None, limit |-> None, valid |-> None, next |-> FALSE, status |-> 0,
           extract |-> FALSE, code |-> 0, message |-> "", token |-> <<>>,
           run |-> 0, made |-> None, gone |-> FALSE, prev |-> 0,
           reset |-> FALSE, body |-> None, pw |-> "", err |-> "",
           data |-> <<>>, read |-> FALSE, total |-> 0, id |-> None]

\* hist: calls  - check_limit calls per ip within minute key (saturating)
\*       made   - per id, when session_id last returned it, unless
\*                check_session or remove_session_id was called for it since
\*       gone   - the ids removed by remove_session_id and not returned by
\*                session_id since
\*       written - what encrypt_database last wrote to the file, if it did
\*       reads  - std::fs::read calls of load_database since the cache slot
\*                was last populated (saturating)
\*       access - when load_database last returned records, if it did
NoHist == [key |-> 0, calls |-> [a \in 0 .. NumIps |-> 0],
           made |-> [i \in Ids |-> None], gone |-> {},
           written |-> None, reads |-> 0, access |-> None]

IdleLoc == [ip |-> 0, now |-> 0, statis |-> 0]

\* the statics as the program starts
Start ==
    /\ now = StartTime
    /\ PASSWORD = ""
    /\ G_RECS = None
    /\ SESSIONS = <<>>
    /\ STATIS_TIME = 0
    /\ CURRENT_LIMITINGS = << >>
    /\ pc = [t \in Threads |-> "idle"]
    /\ loc = [t \in Threads |-> IdleLoc]
    /\ hist = NoHist
    /\ last = NoLast

Init == Start /\ dbfile \in Files

\* the history after one more check_limit call from ip at time t
HistCap == MAX_CURRENT_LIMITING + 1
Count(h, ip, t) ==
    LET key == t \div WindowSecs
        base == IF h.key = key THEN h.calls ELSE NoHist.calls
        n == IF base[ip] < HistCap THEN base[ip] + 1 ELSE HistCap
    IN  [h EXCEPT !.key = key, !.calls = [base EXCEPT ![ip] = n]]

\* the history after session_id returned id at time t
Made(h, id, t) ==
    [h EXCEPT !.made = [h.made EXCEPT ![id] = Some(t)], !.gone = h.gone \ {id}]
\* the history after check_session was called for id
Used(h, id) ==
    IF id \in Ids THEN [h EXCEPT !.made = [h.made EXCEPT ![id] = None]] ELSE h
\* the history after remove_session_id was called for id
Gone(h, id) ==
    IF id \in Ids
    THEN [h EXCEPT !.made = [h.made EXCEPT ![id] = None], !.gone = h.gone \cup {id}]
    ELSE h

\* the wall clock advances by one second
Tick ==
    /\ now < MaxTime
    /\ now' = now + 1
    /\ last' = [NoLast EXCEPT !.op = "tick"]
    /\ UNCHANGED <<dbfile, PASSWORD, G_RECS, SESSIONS, STATIS_TIME,
                   CURRENT_LIMITINGS, pc, loc, hist>>

(***************************************************************************)
(* SpecSM: the operations of the session table, called in any order        *)
(***************************************************************************)
Draws == [1 .. MaxSessions -> Ids]

\* Authentication::session_id()
Create(draws) ==
    /\ Len(SESSIONS) < MaxSessions
    /\ \E r \in {session_id(SESSIONS, draws, now)} :
        /\ SESSIONS' = r.sessions
        /\ hist' = IF r.ok THEN Made(hist, r.id, now) ELSE hist
        /\ last' = [NoLast EXCEPT !.op = "create", !.token = r.token,
                       !.tok = IF r.ok THEN Some(r.id) ELSE None]
        /\ UNCHANGED <<now, dbfile, PASSWORD, G_RECS, STATIS_TIME,
                       CURRENT_LIMITINGS, pc, loc>>

\* Authentication::check_session(id)
Validate(id) ==
    \E r \in {check_session(SESSIONS, id, now)} :
        /\ SESSIONS' = r.sessions
        /\ hist' = Used(hist, id)
        /\ last' = [NoLast EXCEPT !.op = "validate", !.tok = Some(id),
                       !.valid = Some(r.res), !.made = hist.made[id],
                       !.gone = id \in hist.gone]
        /\ UNCHANGED <<now, dbfile, PASSWORD, G_RECS, STATIS_TIME,
                       CURRENT_LIMITINGS, pc, loc>>

\* Authentication::remove_session_id(ctx), the request carrying the token
\* session_id formats for id
Remove(id) ==
    /\ SESSIONS' = remove_session_id(SESSIONS, Some(SESSION \o format_016x(id)))
    /\ hist' = Gone(hist, id)
    /\ last' = [NoLast EXCEPT !.op = "remove", !.tok = Some(id)]
    /\ UNCHANGED <<now, dbfile, PASSWORD, G_RECS, STATIS_TIME,
                   CURRENT_LIMITINGS, pc, loc>>

\* Authentication::recycle()
Reclaim ==
    /\ SESSIONS' = recycle(SESSIONS, now)
    /\ last' = [NoLast EXCEPT !.op = "recycle"]
    /\ UNCHANGED <<now, dbfile, PASSWORD, G_RECS, STATIS_TIME,
                   CURRENT_LIMITINGS, pc, loc, hist>>

InitSM == Init /\ dbfile = ValidFile

NextSM ==
    \/ \E draws \in Draws : Create(draws)
    \/ \E id \in Ids : Validate(id)
    \/ \E id \in Ids : Remove(id)
    \/ Reclaim
    \/ Tick

SpecSM == InitSM /\ [][NextSM]_vars

(***************************************************************************)
(* SpecSI: Authentication::session_id one loop iteration at a time. The    *)
(* caller holds the SESSIONS lock from its first line to its return, so    *)
(* the other operations of the table run between calls only.               *)
(***************************************************************************)
ExhaustedMessage ==
    "generator random session id has reached the maximum number of attempts"

\* the body of the for loop with the collision check restarting the scan
\* and no limit on the attempts
for_item_unbounded(sessions, l, d) ==
    IF sessions[l.i].id = l.id
    THEN [bail |-> FALSE, l |-> [l EXCEPT !.i = 1, !.id = d]]
    ELSE [bail |-> FALSE, l |-> [l EXCEPT !.i = l.i + 1]]

\* the body of the for loop for the entry l.i, the locals being l (i, id,
\* count) and d the value the next rand::random() returns: bail tells that
\* the function returns the error, l is the locals as the next iteration
\* begins (`continue` goes on with the next entry)
for_item(sessions, l, d) ==
    IF sessions[l.i].id = l.id
    THEN IF l.count > MaxAttempts
         THEN [bail |-> TRUE, l |-> l]
         ELSE [bail |-> FALSE,
               l |-> [i |-> l.i + 1, id |-> d, count |-> l.count + 1]]
    ELSE [bail |-> FALSE, l |-> [l EXCEPT !.i = l.i + 1]]

\* session_id is called: the lock is taken, the first id drawn, count = 0
SI_Call(t, d) ==
    /\ \A u \in Threads : pc[u] = "idle"
    /\ Len(SESSIONS) < MaxSessions
    /\ pc' = [pc EXCEPT ![t] = "for"]
    /\ loc' = [loc EXCEPT ![t] = [i |-> 1, id |-> d, count |-> 0]]
    /\ UNCHANGED <<now, dbfile, PASSWORD, G_RECS, SESSIONS, STATIS_TIME,
                   CURRENT_LIMITINGS, hist, last>>

\* one iteration of the for loop
SI_Item(t, d) ==
    /\ pc[t] = "for"
    /\ loc[t].i <= Len(SESSIONS)
    /\ \E r \in {for_item(SESSIONS, loc[t], d)} :
          IF r.bail
          THEN /\ pc' = [pc EXCEPT ![t] = "idle"]
               /\ loc' = [loc EXCEPT ![t] = IdleLoc]
               /\ last' = [NoLast EXCEPT !.op = "create", !.err = ExhaustedMessage]
          ELSE /\ loc' = [loc EXCEPT ![t] = r.l]
               /\ UNCHANGED <<pc, last>>
    /\ UNCHANGED <<now, dbfile, PASSWORD, G_RECS, SESSIONS, STATIS_TIME,
                   CURRENT_LIMITINGS, hist>>

\* the for loop is over: break, push the entry, return the token
SI_Push(t) ==
    /\ pc[t] = "for"
    /\ loc[t].i > Len(SESSIONS)
    /\ SESSIONS' = Append(SESSIONS, SessionItem(loc[t].id, now + SESS_EXP_SECS))
    /\ pc' = [pc EXCEPT ![t] = "idle"]
    /\ loc' = [loc EXCEPT ![t] = IdleLoc]
    /\ hist' = Made(hist, loc[t].id, now)
    /\ last' = [NoLast EXCEPT !.op = "create", !.tok = Some(loc[t].id),
                   !.token = format_016x(loc[t].id)]
    /\ UNCHANGED <<now, dbfile, PASSWORD, G_RECS, STATIS_TIME,
                   CURRENT_LIMITINGS>>

\* what a worker inside session_id does next
SI_Step(t) == (\E d \in Ids : SI_Item(t, d)) \/ SI_Push(t)

\* another operation of the table, which needs the lock
SI_Other ==
    /\ \A u \in Threads : pc[u] = "idle"
    /\ \/ \E id \in Ids : Validate(id)
       \/ \E id \in Ids : Remove(id)
       \/ Reclaim

NextSI ==
    \/ \E t \in Threads, d \in Ids : SI_Call(t, d)
    \/ \E t \in Threads : SI_Step(t)
    \/ SI_Other
    \/ Tick

SpecSI == InitSM /\ [][NextSI]_vars

\* a worker that holds the lock keeps running
SpecSIFair == SpecSI /\ \A t \in Threads : WF_vars(SI_Step(t))

(***************************************************************************)
(* SpecRL: check_limit called for any client, one call at a time           *)
(***************************************************************************)
\* X-Real-IP header and peer address of a request
ClientAddrs ==
    {[xreal |-> None, addr |-> V4(a)] : a \in Ips}
    \cup {[xreal |-> None, addr |-> V6]}
    \cup {[xreal |-> Some(IpText(a)), addr |-> V6] : a \in Ips}
    \cup {[xreal |-> Some(NotAnIp), addr |-> V4(a)] : a \in Ips}

\* Authentication::check_limit(get_remote_ip(ctx))
Check(client) ==
    \E ip \in {get_remote_ip(client.xreal, client.addr)} :
    \E r \in {check_limit(CURRENT_LIMITINGS, STATIS_TIME, ip, now)} :
        /\ r.limits[ip] <= MaxVisits
        /\ STATIS_TIME' = r.statis
        /\ CURRENT_LIMITINGS' = r.limits
        /\ hist' = Count(hist, ip, now)
        /\ last' = [NoLast EXCEPT !.op = "check", !.ip = ip,
                       !.limit = Some(r.res), !.reset = r.reset,
                       !.prev = Visits(CURRENT_LIMITINGS, ip)]
        /\ UNCHANGED <<now, dbfile, PASSWORD, G_RECS, SESSIONS, pc, loc>>

NextRL == (\E client \in ClientAddrs : Check(client)) \/ Tick

SpecRL == InitSM /\ [][NextRL]_vars

(***************************************************************************)
(* SpecMT: check_limit called by the workers of the multi_thread build.    *)
(* A call reads the clock, reads STATIS_TIME without synchronisation, and  *)
(* then takes the CURRENT_LIMITINGS lock for the rest of its body.         *)
(***************************************************************************)
\* let now = SystemTime::now()...as_secs()
MT_ReadClock(t, client) ==
    /\ pc[t] = "idle"
    /\ Visits(CURRENT_LIMITINGS, get_remote_ip(client.xreal, client.addr)) < MaxVisits
    /\ loc' = [loc EXCEPT ![t] = [ip |-> get_remote_ip(client.xreal, client.addr),
                                  now |-> now, statis |-> 0]]
    /\ pc' = [pc EXCEPT ![t] = "read"]
    /\ UNCHANGED <<now, dbfile, PASSWORD, G_RECS, SESSIONS, STATIS_TIME,
                   CURRENT_LIMITINGS, hist, last>>

\* let statis_time = unsafe { STATIS_TIME }
MT_ReadStatis(t) ==
    /\ pc[t] = "read"
    /\ loc' = [loc EXCEPT ![t].statis = STATIS_TIME]
    /\ pc' = [pc EXCEPT ![t] = "lock"]
    /\ UNCHANGED <<now, dbfile, PASSWORD, G_RECS, SESSIONS, STATIS_TIME,
                   CURRENT_LIMITINGS, hist, last>>

\* CURRENT_LIMITINGS.lock() and the body under the lock
MT_Locked(t) ==
    /\ pc[t] = "lock"
    /\ \E r \in {check_limit_locked(CURRENT_LIMITINGS, loc[t].now,
                                    loc[t].statis, STATIS_TIME, loc[t].ip)} :
        /\ STATIS_TIME' = r.statis
        /\ CURRENT_LIMITINGS' = r.limits
        /\ last' = [NoLast EXCEPT !.op = "check", !.ip = loc[t].ip,
                       !.limit = Some(r.res), !.reset = r.reset,
                       !.prev = Visits(CURRENT_LIMITINGS, loc[t].ip)]
    /\ hist' = Count(hist, loc[t].ip, loc[t].now)
    /\ pc' = [pc EXCEPT ![t] = "idle"]
    /\ loc' = [loc EXCEPT ![t] = IdleLoc]
    /\ UNCHANGED <<now, dbfile, PASSWORD, G_RECS, SESSIONS>>

NextMT ==
    \/ \E t \in Threads, client \in ClientAddrs : MT_ReadClock(t, client)
    \/ \E t \in Threads : MT_ReadStatis(t)
    \/ \E t \in Threads : MT_Locked(t)
    \/ Tick

SpecMT == InitSM /\ [][NextMT]_vars

(***************************************************************************)
(* SpecCS: the record cache. load_database is called with any password     *)
(* against any file, encrypt_database replaces the file, recycle_cache     *)
(* sweeps the slot.                                                        *)
(***************************************************************************)
\* the history after a load_database call with result r on the slot cache
Loaded(h, cache, r) ==
    IF IsSome(r.cache)
    THEN [h EXCEPT !.reads = 0, !.access = Some(Unwrap(r.cache).time)]
    ELSE IF r.read /\ h.reads < 2 THEN [h EXCEPT !.reads = h.reads + 1]
    ELSE h

\* aidb::load_database(&ac.database, password)
Load(password) ==
    \E r \in {load_database(G_RECS, dbfile, password, now)} :
        /\ G_RECS' = r.cache
        /\ hist' = Loaded(hist, G_RECS, r)
        /\ last' = [NoLast EXCEPT !.op = "load", !.pw = password,
                       !.err = r.err, !.data = r.data, !.read = r.read]
        /\ UNCHANGED <<now, dbfile, PASSWORD, SESSIONS, STATIS_TIME,
                       CURRENT_LIMITINGS, pc, loc>>

\* aidb::encrypt_database(xml_file, password, out_file), out_file being the
\* database file and recs what load_xml returned
Encrypt(recs, password) ==
    /\ dbfile' = [dbfile EXCEPT !.exists = TRUE, !.bytes = EncodeOf[recs][password]]
    /\ hist' = [hist EXCEPT !.written = Some([recs |-> recs, pw |-> password])]
    /\ last' = [NoLast EXCEPT !.op = "encrypt", !.pw = password, !.data = recs]
    /\ UNCHANGED <<now, PASSWORD, G_RECS, SESSIONS, STATIS_TIME,
                   CURRENT_LIMITINGS, pc, loc>>

\* aidb::recycle_cache(cache_expire)
Evict ==
    /\ G_RECS' = recycle_cache(G_RECS, CacheExpire, now)
    /\ last' = [NoLast EXCEPT !.op = "evict"]
    /\ UNCHANGED <<now, dbfile, PASSWORD, SESSIONS, STATIS_TIME,
                   CURRENT_LIMITINGS, pc, loc, hist>>

InitCS == Start /\ dbfile \in DbFiles

NextCS ==
    \/ \E password \in Passwords : Load(password)
    \/ \E recs \in RecordSets, password \in Passwords : Encrypt(recs, password)
    \/ Evict
    \/ Tick

SpecCS == InitCS /\ [][NextCS]_vars

(***************************************************************************)
(* SpecCM: load_database called by the workers of the multi_thread build   *)
(* for the valid file with its password, and recycle_cache by the periodic *)
(* task. Each takes the G_RECS mutex first and holds it to its end.        *)
(***************************************************************************)
\* where a worker is in load_database:
\*   load_lock  at G_RECS.lock()
\*   load_held  holding the mutex, at `if let Some(ref mut recs) = *g_recs`
\*   load_cold  holding the mutex, at std::fs::read
\*   load_done  returned
Holding == {"load_held", "load_cold"}

\* G_RECS.lock() succeeds with every holder a failed one
g_recs_lock_any == TRUE

\* G_RECS.lock() succeeds: no worker holds the mutex
g_recs_lock == \A t \in Threads : pc[t] \notin Holding

\* a worker calls load_database; cold tells whether the slot was empty then
CM_Call(t) ==
    /\ pc[t] = "idle"
    /\ pc' = [pc EXCEPT ![t] = "load_lock"]
    /\ loc' = [loc EXCEPT ![t] = [cold |-> ~IsSome(G_RECS), read |-> FALSE,
                                  err |-> "", data |-> <<>>]]
    /\ UNCHANGED <<now, dbfile, PASSWORD, G_RECS, SESSIONS, STATIS_TIME,
                   CURRENT_LIMITINGS, hist, last>>

\* let mut g_recs = G_RECS.lock().unwrap()
CM_Lock(t) ==
    /\ pc[t] = "load_lock"
    /\ g_recs_lock
    /\ pc' = [pc EXCEPT ![t] = "load_held"]
    /\ UNCHANGED <<now, dbfile, PASSWORD, G_RECS, SESSIONS, STATIS_TIME,
                   CURRENT_LIMITINGS, loc, hist, last>>

\* the warm path: the slot is populated, refresh and return; else go on
CM_Check(t) ==
    /\ pc[t] = "load_held"
    /\ IF IsSome(G_RECS)
       THEN \E r \in {load_database(G_RECS, dbfile, PASSWORD, now)} :
               /\ G_RECS' = r.cache
               /\ hist' = Loaded(hist, G_RECS, r)
               /\ pc' = [pc EXCEPT ![t] = "load_done"]
               /\ loc' = [loc EXCEPT ![t].read = r.read, ![t].err = r.err,
                                     ![t].data = r.data]
               /\ last' = [NoLast EXCEPT !.op = "load", !.pw = PASSWORD,
                              !.err = r.err, !.data = r.data, !.read = r.read]
       ELSE /\ pc' = [pc EXCEPT ![t] = "load_cold"]
            /\ UNCHANGED <<G_RECS, loc, hist, last>>
    /\ UNCHANGED <<now, dbfile, PASSWORD, SESSIONS, STATIS_TIME,
                   CURRENT_LIMITINGS>>

\* the cold path: read the file, check, decrypt, parse, fill the slot
CM_Cold(t) ==
    /\ pc[t] = "load_cold"
    /\ \E r \in {load_database(None, dbfile, PASSWORD, now)} :
          /\ G_RECS' = r.cache
          /\ hist' = Loaded(hist, None, r)
          /\ loc' = [loc EXCEPT ![t].read = r.read, ![t].err = r.err,
                                ![t].data = r.data]
          /\ last' = [NoLast EXCEPT !.op = "load", !.pw = PASSWORD,
                         !.err = r.err, !.data = r.data, !.read = r.read]
    /\ pc' = [pc EXCEPT ![t] = "load_done"]
    /\ UNCHANGED <<now, dbfile, PASSWORD, SESSIONS, STATIS_TIME,
                   CURRENT_LIMITINGS>>

\* the caller has used the result
CM_Return(t) ==
    /\ pc[t] = "load_done"
    /\ pc' = [pc EXCEPT ![t] = "idle"]
    /\ loc' = [loc EXCEPT ![t] = IdleLoc]
    /\ UNCHANGED <<now, dbfile, PASSWORD, G_RECS, SESSIONS, STATIS_TIME,
                   CURRENT_LIMITINGS, hist, last>>

\* recycle_cache in the periodic task, under the mutex from start to end
CM_Evict ==
    /\ g_recs_lock
    /\ Evict

\* the statics after the owner of the valid file has logged in
InitCM ==
    /\ now = StartTime
    /\ dbfile = ValidFile
    /\ PASSWORD = "correct"
    /\ G_RECS = None
    /\ SESSIONS = <<>>
    /\ STATIS_TIME = 0
    /\ CURRENT_LIMITINGS = << >>
    /\ pc = [t \in Threads |-> "idle"]
    /\ loc = [t \in Threads |-> IdleLoc]
    /\ hist = NoHist
    /\ last = NoLast

NextCM ==
    \/ \E t \in Threads : CM_Call(t)
    \/ \E t \in Threads : CM_Lock(t)
    \/ \E t \in Threads : CM_Check(t)
    \/ \E t \in Threads : CM_Cold(t)
    \/ \E t \in Threads : CM_Return(t)
    \/ CM_Evict
    \/ Tick

SpecCM == InitCM /\ [][NextCM]_vars

(***************************************************************************)
(* Spec: the server. A request runs through the Authentication middleware  *)
(* and, if that calls next.run, through the endpoint the router finds.     *)
(***************************************************************************)
Paths == {PathPing, PathLogin, PathLogout, PathList, PathOther, PathIndex}

\* the Authorization header login's token makes
TokenHeader(id) == Some(SESSION \o format_016x(id))

\* Authorization header values: absent, the token of each id, and values
\* that are empty, short, signed, not hexadecimal, not ASCII, too long for
\* u64, or of another scheme
AuthHeaders ==
    {None}
    \cup {TokenHeader(id) : id \in Ids}
    \cup {Some(SESSION), Some(SESSION \o <<"1">>), Some(SESSION \o <<"+", "0">>),
          Some(SESSION \o <<"g">>), Some(SESSION \o <<"\\xE9">>),
          Some(SESSION \o <<"1">> \o format_016x(0)),
          Some(<<"S">> \o Tail(SESSION) \o format_016x(0))}

\* get_session_id of every header value of the model, tabulated
SessionIdOf == [a \in AuthHeaders |-> get_session_id(a)]

\* login bodies: not JSON (None) or {user, pass}
Bodies ==
    {None} \cup {Some([user |-> u, pass |-> p]) :
                    u \in {"alice", "bob"}, p \in {"correct", "wrong"}}

Resp(status, code, message) ==
    [status |-> status, code |-> code, message |-> message]
Resp_ok == Resp(200, 200, "")
\* ResBuiler::fail and HttpServer::handle_error: HTTP 200 with code 500
Resp_fail(message) == Resp(200, 500, message)
\* the middleware's denial
Resp_unauthorized == Resp(401, 401, "401")

\* handle with the answer of check_limit dropped
handle_unlimited(path, auth, ip) ==
    LET pass == [next |-> TRUE, extract |-> FALSE, tok |-> None,
                 limit |-> None, valid |-> None, reset |-> FALSE,
                 statis |-> STATIS_TIME, limits |-> CURRENT_LIMITINGS,
                 sessions |-> SESSIONS, resp |-> Resp_unauthorized]
        tok == SessionIdOf[auth]
        lim == check_limit(CURRENT_LIMITINGS, STATIS_TIME, ip, now)
        ses == check_session(SESSIONS, Unwrap(tok), now)
    IN  IF ~require_authentication(path) THEN pass
        ELSE IF ~IsSome(tok)
             THEN [pass EXCEPT !.next = FALSE, !.extract = TRUE]
        ELSE [next |-> ses.res, extract |-> TRUE, tok |-> tok,
              limit |-> Some(lim.res), valid |-> Some(ses.res),
              reset |-> lim.reset, statis |-> lim.statis,
              limits |-> lim.limits, sessions |-> ses.sessions,
              resp |-> Resp_unauthorized]

\* handle answering a refusal of check_limit with 429 Too Many Requests
handle_telling(path, auth, ip) ==
    LET pass == [next |-> TRUE, extract |-> FALSE, tok |-> None,
                 limit |-> None, valid |-> None, reset |-> FALSE,
                 statis |-> STATIS_TIME, limits |-> CURRENT_LIMITINGS,
                 sessions |-> SESSIONS, resp |-> Resp_unauthorized]
        tok == SessionIdOf[auth]
        lim == check_limit(CURRENT_LIMITINGS, STATIS_TIME, ip, now)
        ses == check_session(SESSIONS, Unwrap(tok), now)
    IN  IF ~require_authentication(path) THEN pass
        ELSE IF ~IsSome(tok)
             THEN [pass EXCEPT !.next = FALSE, !.extract = TRUE]
        ELSE IF ~lim.res
             THEN [pass EXCEPT !.next = FALSE, !.extract = TRUE, !.tok = tok,
                               !.limit = Some(FALSE), !.reset = lim.reset,
                               !.statis = lim.statis, !.limits = lim.limits,
                               !.resp = Resp(429, 429, "429")]
        ELSE [next |-> ses.res, extract |-> TRUE, tok |-> tok,
              limit |-> Some(TRUE), valid |-> Some(ses.res),
              reset |-> lim.reset, statis |-> lim.statis,
              limits |-> lim.limits, sessions |-> ses.sessions,
              resp |-> Resp_unauthorized]

\* handle asking check_session before check_limit
handle_session_first(path, auth, ip) ==
    LET pass == [next |-> TRUE, extract |-> FALSE, tok |-> None,
                 limit |-> None, valid |-> None, reset |-> FALSE,
                 statis |-> STATIS_TIME, limits |-> CURRENT_LIMITINGS,
                 sessions |-> SESSIONS, resp |-> Resp_unauthorized]
        tok == SessionIdOf[auth]
        lim == check_limit(CURRENT_LIMITINGS, STATIS_TIME, ip, now)
        ses == check_session(SESSIONS, Unwrap(tok), now)
    IN  IF ~require_authentication(path) THEN pass
        ELSE IF ~IsSome(tok)
             THEN [pass EXCEPT !.next = FALSE, !.extract = TRUE]
        ELSE IF ~ses.res
             THEN [pass EXCEPT !.next = FALSE, !.extract = TRUE, !.tok = tok,
                               !.valid = Some(FALSE)]
        ELSE [next |-> lim.res, extract |-> TRUE, tok |-> tok,
              limit |-> Some(lim.res), valid |-> Some(TRUE),
              reset |-> lim.reset, statis |-> lim.statis,
              limits |-> lim.limits, sessions |-> ses.sessions,
              resp |-> Resp_unauthorized]

\* handle asking check_limit before it looks for the token
handle_count_all(path, auth, ip) ==
    LET pass == [next |-> TRUE, extract |-> FALSE, tok |-> None,
                 limit |-> None, valid |-> None, reset |-> FALSE,
                 statis |-> STATIS_TIME, limits |-> CURRENT_LIMITINGS,
                 sessions |-> SESSIONS, resp |-> Resp_unauthorized]
        tok == SessionIdOf[auth]
        lim == check_limit(CURRENT_LIMITINGS, STATIS_TIME, ip, now)
        ses == check_session(SESSIONS, Unwrap(tok), now)
    IN  IF ~require_authentication(path) THEN pass
        ELSE IF ~lim.res \/ ~IsSome(tok)
             THEN [pass EXCEPT !.next = FALSE, !.extract = TRUE, !.tok = tok,
                               !.limit = IF IsSome(tok) THEN Some(lim.res) ELSE None,
                               !.reset = lim.reset,
                               !.statis = lim.statis, !.limits = lim.limits]
        ELSE [next |-> ses.res, extract |-> TRUE, tok |-> tok,
              limit |-> Some(TRUE), valid |-> Some(ses.res),
              reset |-> lim.reset, statis |-> lim.statis,
              limits |-> lim.limits, sessions |-> ses.sessions,
              resp |-> Resp_unauthorized]

\* HttpMiddleware::handle of Authentication, up to the call of next.run;
\* resp is the answer it gives itself when it does not call next.run
handle(path, auth, ip) ==
    LET pass == [next |-> TRUE, extract |-> FALSE, tok |-> None,
                 limit |-> None, valid |-> None, reset |-> FALSE,
                 statis |-> STATIS_TIME, limits |-> CURRENT_LIMITINGS,
                 sessions |-> SESSIONS, resp |-> Resp_unauthorized]
        tok == SessionIdOf[auth]
        lim == check_limit(CURRENT_LIMITINGS, STATIS_TIME, ip, now)
        ses == check_session(SESSIONS, Unwrap(tok), now)
    IN  IF ~require_authentication(path) THEN pass
        ELSE IF ~IsSome(tok)
             THEN [pass EXCEPT !.next = FALSE, !.extract = TRUE]
        ELSE IF ~lim.res
             THEN [pass EXCEPT !.next = FALSE, !.extract = TRUE, !.tok = tok,
                               !.limit = Some(FALSE), !.reset = lim.reset,
                               !.statis = lim.statis, !.limits = lim.limits]
        ELSE [next |-> ses.res, extract |-> TRUE, tok |-> tok,
              limit |-> Some(TRUE), valid |-> Some(ses.res),
              reset |-> lim.reset, statis |-> lim.statis,
              limits |-> lim.limits, sessions |-> ses.sessions,
              resp |-> Resp_unauthorized]

\* the checks of service::login that precede session_id
accepts(body) ==
    /\ IsSome(body)
    /\ dbfile.exists
    /\ dbfile.stem = Unwrap(body).user
    /\ check_password(dbfile, Unwrap(body).pass).err = ""
    /\ check_password(dbfile, Unwrap(body).pass).ok

\* login without the fail_if! on the result of check_password
login_unchecked(body, draws, sessions) ==
    LET same == [resp |-> Resp_ok, made |-> None, token |-> <<>>,
                 password |-> PASSWORD, sessions |-> sessions]
        req == Unwrap(body)
        chk == check_password(dbfile, req.pass)
        sid == session_id(sessions, draws, now)
    IN  IF ~IsSome(body)
             THEN [same EXCEPT !.resp = Resp_fail("parse request data failed")]
        ELSE IF ~dbfile.exists
             THEN [same EXCEPT !.resp = Resp_fail("database lost")]
        ELSE IF dbfile.stem # req.user
             THEN [same EXCEPT !.resp = Resp_fail("username wrong")]
        ELSE IF chk.err # "" THEN [same EXCEPT !.resp = Resp_fail(chk.err)]
        ELSE IF ~sid.ok
             THEN [same EXCEPT !.resp = Resp_fail("generator random session id has reached the maximum number of attempts"),
                               !.password = req.pass]
        ELSE [resp |-> Resp_ok, made |-> Some(sid.id), token |-> sid.token,
              password |-> req.pass, sessions |-> sid.sessions]

\* login storing the password before check_password is asked
login_store_first(body, draws, sessions) ==
    LET same == [resp |-> Resp_ok, made |-> None, token |-> <<>>,
                 password |-> PASSWORD, sessions |-> sessions]
        req == Unwrap(body)
        chk == check_password(dbfile, req.pass)
        sid == session_id(sessions, draws, now)
    IN  IF ~IsSome(body)
             THEN [same EXCEPT !.resp = Resp_fail("parse request data failed")]
        ELSE IF ~dbfile.exists
             THEN [same EXCEPT !.resp = Resp_fail("database lost")]
        ELSE IF dbfile.stem # req.user
             THEN [same EXCEPT !.resp = Resp_fail("username wrong")]
        ELSE IF chk.err # ""
             THEN [same EXCEPT !.resp = Resp_fail(chk.err),
                               !.password = req.pass]
        ELSE IF ~chk.ok
             THEN [same EXCEPT !.resp = Resp_fail("password wrong"),
                               !.password = req.pass]
        ELSE IF ~sid.ok
             THEN [same EXCEPT !.resp = Resp_fail("generator random session id has reached the maximum number of attempts"),
                               !.password = req.pass]
        ELSE [resp |-> Resp_ok, made |-> Some(sid.id), token |-> sid.token,
              password |-> req.pass, sessions |-> sid.sessions]

\* service::login; the messages of its three fail_if! are written in English
\* here: database lost, username wrong, password wrong
login(body, draws, sessions) ==
    LET same == [resp |-> Resp_ok, made |-> None, token |-> <<>>,
                 password |-> PASSWORD, sessions |-> sessions]
        req == Unwrap(body)
        chk == check_password(dbfile, req.pass)
        sid == session_id(sessions, draws, now)
    IN  IF ~IsSome(body)
             THEN [same EXCEPT !.resp = Resp_fail("parse request data failed")]
        ELSE IF ~dbfile.exists
             THEN [same EXCEPT !.resp = Resp_fail("database lost")]
        ELSE IF dbfile.stem # req.user
             THEN [same EXCEPT !.resp = Resp_fail("username wrong")]
        ELSE IF chk.err # "" THEN [same EXCEPT !.resp = Resp_fail(chk.err)]
        ELSE IF ~chk.ok THEN [same EXCEPT !.resp = Resp_fail("password wrong")]
        ELSE IF ~sid.ok
             THEN [same EXCEPT !.resp = Resp_fail("generator random session id has reached the maximum number of attempts"),
                               !.password = req.pass]
        ELSE [resp |-> Resp_ok, made |-> Some(sid.id), token |-> sid.token,
              password |-> req.pass, sessions |-> sid.sessions]

\* str::contains: q is a substring of s
contains(s, q) ==
    \E i \in 0 .. Len(s) - Len(q) : SubSeq(s, i + 1, i + Len(q)) = q

\* request bodies of list: none, not JSON, {} and {q}
NoBody == [kind |-> "empty", q |-> None]
ListBodies ==
    {NoBody, [kind |-> "bad", q |-> None], [kind |-> "json", q |-> None]}
    \cup {[kind |-> "json", q |-> Some(q)] :
            q \in {<<>>, <<98, 97, 110, 107>>, <<98, 46, 105, 111>>,
                   <<97, 108>>, <<112, 119>>, <<49>>, <<109, 97, 105, 108>>,
                   <<34, 92>>, <<120>>}}

\* HttpContext::into_opt_json::<ReqParam>: Ok(None) for an empty body,
\* Ok(Some(ReqParam)) for a JSON body, Err for any other
into_opt_json(body) ==
    IF body.kind = "empty" THEN [err |-> "", val |-> None]
    ELSE IF body.kind = "json" THEN [err |-> "", val |-> Some([q |-> body.q])]
    ELSE [err |-> "parse request data failed", val |-> None]

\* the loop of list searching the user field as well
list_loop_user(recs, has_q, q, i, vec_record) ==
    SelectSeq(recs, LAMBDA item :
        ~has_q \/ contains(item.title, q) \/ contains(item.url, q)
               \/ contains(item.notes, q) \/ contains(item.user, q))

RECURSIVE list_loop(_, _, _, _, _)
\* the loop of list over recs from item i on: vec_record at its end
list_loop(recs, has_q, q, i, vec_record) ==
    IF i > Len(recs) THEN vec_record
    ELSE LET item == recs[i]
         IN  IF has_q
             THEN IF contains(item.title, q) \/ contains(item.url, q)
                     \/ contains(item.notes, q)
                  THEN list_loop(recs, has_q, q, i + 1, Append(vec_record, item))
                  ELSE list_loop(recs, has_q, q, i + 1, vec_record)
             ELSE list_loop(recs, has_q, q, i + 1, Append(vec_record, item))

\* service::list: the answer, the cache slot afterwards, ResData (records,
\* total) and whether the file was read; an Err leaving with `?` is answered
\* by HttpServer::handle_error
list_reply(req_param, cache, ld) ==
    LET has_q == IsSome(req_param.val) /\ IsSome(Unwrap(req_param.val).q)
        q == IF has_q THEN Unwrap(Unwrap(req_param.val).q) ELSE <<>>
        vec_record == list_loop(ld.data, has_q, q, 1, <<>>)
    IN  IF req_param.err # ""
        THEN [resp |-> Resp_fail(req_param.err), cache |-> cache,
              records |-> <<>>, total |-> 0, read |-> FALSE]
        ELSE IF ld.err # ""
        THEN [resp |-> Resp_fail(ld.err), cache |-> ld.cache,
              records |-> <<>>, total |-> 0, read |-> ld.read]
        ELSE [resp |-> Resp_ok, cache |-> ld.cache, records |-> vec_record,
              total |-> Len(vec_record), read |-> ld.read]

\* service::list: the body is parsed first, then the records are loaded
list(body, cache, file, password, t) ==
    list_reply(into_opt_json(body), cache,
               load_database(cache, file, password, t))

\* how many login requests in a row the address ip has made within the
\* current second, the one being served included (saturating)
Run(path, ip) ==
    IF path # PathLogin THEN 0
    ELSE IF last.op = "request" /\ last.path = PathLogin /\ last.ip = ip
         THEN IF last.run < HistCap THEN last.run + 1 ELSE HistCap
         ELSE 1

\* web::default_handler: the embedded asset of the path, as it is (code 0:
\* the body is not the JSON envelope), or 404 if there is none
default_handler(path) ==
    IF path = PathIndex THEN Resp(200, 0, "") ELSE Resp(404, 0, "Not Found")

\* what the request did in the middleware, with the answer r
Seen(path, auth, ip, mw, r, token) ==
    [NoLast EXCEPT !.op = "request", !.path = path, !.auth = auth,
                   !.ip = ip, !.tok = mw.tok,
                   !.limit = mw.limit, !.valid = mw.valid, !.next = mw.next,
                   !.extract = mw.extract, !.status = r.status,
                   !.code = r.code, !.message = r.message, !.token = token,
                   !.run = Run(path, ip)]

\* the endpoint the router finds for the path, or the default handler
Endpoint(path, auth, ip, mw, body, draws) ==
    IF path = PathLogin
    THEN \E lg \in {login(body, draws, mw.sessions)} :
            /\ last' = [Seen(path, auth, ip, mw, lg.resp, lg.token) EXCEPT !.body = body]
            /\ SESSIONS' = lg.sessions
            /\ PASSWORD' = lg.password
            /\ UNCHANGED G_RECS
    ELSE IF path = PathLogout
    THEN /\ last' = Seen(path, auth, ip, mw, Resp_ok, <<>>)
         /\ SESSIONS' = remove_session_id(mw.sessions, auth)
         /\ UNCHANGED <<PASSWORD, G_RECS>>
    ELSE IF path = PathList
    THEN \E ls \in {list(NoBody, G_RECS, dbfile, PASSWORD, now)} :
            /\ last' = Seen(path, auth, ip, mw, ls.resp, <<>>)
            /\ G_RECS' = ls.cache
            /\ SESSIONS' = mw.sessions
            /\ UNCHANGED PASSWORD
    ELSE /\ last' = Seen(path, auth, ip, mw,
                         IF path = PathPing THEN Resp_ok
                         ELSE default_handler(path), <<>>)
         /\ SESSIONS' = mw.sessions
         /\ UNCHANGED <<PASSWORD, G_RECS>>

\* one request through the dispatch chain
Request(path, auth, client, body, draws) ==
    \E ip \in {get_remote_ip(client.xreal, client.addr)} :
    \E mw \in {handle(path, auth, ip)} :
        /\ (path = PathLogin /\ accepts(body)) => Len(mw.sessions) < MaxLogins
        /\ IsSome(mw.limit) => mw.limits[ip] <= MaxVisits
        /\ STATIS_TIME' = mw.statis
        /\ CURRENT_LIMITINGS' = mw.limits
        /\ IF mw.next
           THEN Endpoint(path, auth, ip, mw, body, draws)
           ELSE /\ last' = Seen(path, auth, ip, mw, mw.resp, <<>>)
                /\ SESSIONS' = mw.sessions
                    /\ UNCHANGED <<PASSWORD, G_RECS>>
        /\ UNCHANGED <<now, dbfile, pc, loc, hist>>

NoDraws == [i \in 1 .. MaxSessions |-> 0]

\* the client of the server: one peer connected directly over IPv4; how the
\* limiter keeps addresses apart is the subject of SpecRL and SpecMT
Peers == {[xreal |-> None, addr |-> V4(1)]}

\* a request to an endpoint other than login
Serve ==
    \E path \in Paths \ {PathLogin}, auth \in AuthHeaders, client \in Peers :
        Request(path, auth, client, None, NoDraws)

\* a request to login; the random draws matter only when a session is made
ServeLogin ==
    \E auth \in {None, TokenHeader(0)}, client \in Peers, body \in Bodies :
        \E draws \in IF accepts(body) THEN Draws ELSE {NoDraws} :
            Request(PathLogin, auth, client, body, draws)

\* the periodic task of main: recycle_cache, then Authentication::recycle
Maintenance ==
    /\ G_RECS' = recycle_cache(G_RECS, CacheExpire, now)
    /\ SESSIONS' = recycle(SESSIONS, now)
    /\ last' = [NoLast EXCEPT !.op = "recycle"]
    /\ UNCHANGED <<now, dbfile, PASSWORD, STATIS_TIME, CURRENT_LIMITINGS,
                   pc, loc, hist>>

Next == Serve \/ ServeLogin \/ Maintenance \/ Tick

Spec == Init /\ [][Next]_vars

(***************************************************************************)
(* SpecLS: the list endpoint behind the middleware, called with any body   *)
(* against any file and stored password, with the sweep of the slot.       *)
(***************************************************************************)
\* service::list(ctx) with the request body
List(body) ==
    \E ls \in {list(body, G_RECS, dbfile, PASSWORD, now)} :
        /\ G_RECS' = ls.cache
        /\ last' = [NoLast EXCEPT !.op = "list", !.body = Some(body),
                       !.status = ls.resp.status, !.code = ls.resp.code,
                       !.message = ls.resp.message, !.data = ls.records,
                       !.total = ls.total, !.read = ls.read]
        /\ UNCHANGED <<now, dbfile, PASSWORD, SESSIONS, STATIS_TIME,
                       CURRENT_LIMITINGS, pc, loc, hist>>

InitLS ==
    /\ now = StartTime
    /\ dbfile \in DbFiles
    /\ PASSWORD \in Passwords
    /\ G_RECS = None
    /\ SESSIONS = <<>>
    /\ STATIS_TIME = 0
    /\ CURRENT_LIMITINGS = << >>
    /\ pc = [t \in Threads |-> "idle"]
    /\ loc = [t \in Threads |-> IdleLoc]
    /\ hist = NoHist
    /\ last = NoLast

NextLS ==
    \/ \E body \in ListBodies : List(body)
    \/ Evict
    \/ Tick

SpecLS == InitLS /\ [][NextLS]_vars

(***************************************************************************)
(* SpecMN: the periodic task of main beside the operations that fill the   *)
(* slot and the session table. The interval is created as the process      *)
(* starts; its first tick completes at once and is awaited before the loop. *)
(***************************************************************************)
\* the place of the spawned task in pc and loc
Task == 0

\* interval.tick().await before the loop: the tick due at start, no sweep
MN_First ==
    /\ pc[Task] = "first"
    /\ now >= loc[Task].due
    /\ pc' = [pc EXCEPT ![Task] = "loop"]
    /\ loc' = [loc EXCEPT ![Task].due = @ + TaskInterval]
    /\ last' = [NoLast EXCEPT !.op = "first_tick"]
    /\ UNCHANGED <<now, dbfile, PASSWORD, G_RECS, SESSIONS, STATIS_TIME,
                   CURRENT_LIMITINGS, hist>>

\* one turn of the loop: interval.tick().await, recycle_cache, recycle
MN_Sweep ==
    /\ pc[Task] = "loop"
    /\ now >= loc[Task].due
    /\ G_RECS' = recycle_cache(G_RECS, CacheExpire, now)
    /\ SESSIONS' = recycle(SESSIONS, now)
    /\ loc' = [loc EXCEPT ![Task].due = @ + TaskInterval]
    /\ last' = [NoLast EXCEPT !.op = "maintenance"]
    /\ UNCHANGED <<now, dbfile, PASSWORD, STATIS_TIME, CURRENT_LIMITINGS,
                   pc, hist>>

InitMN ==
    /\ now = StartTime
    /\ dbfile = ValidFile
    /\ PASSWORD = ""
    /\ G_RECS = None
    /\ SESSIONS = <<>>
    /\ STATIS_TIME = 0
    /\ CURRENT_LIMITINGS = << >>
    /\ pc = [t \in Threads \cup {Task} |-> IF t = Task THEN "first" ELSE "idle"]
    /\ loc = [t \in Threads \cup {Task} |->
                IF t = Task THEN [due |-> StartTime] ELSE IdleLoc]
    /\ hist = NoHist
    /\ last = NoLast

\* session_id called by login, while the table holds fewer than MaxLogins
\* entries
MN_Login(draws) ==
    /\ Len(SESSIONS) < MaxLogins
    /\ Create(draws)

\* load_database called by list with the password of the file
MN_List == Load("correct")

NextMN ==
    \/ MN_First
    \/ MN_Sweep
    \/ MN_List
    \/ \E draws \in Draws : MN_Login(draws)
    \/ \E id \in Ids : Validate(id)
    \/ Tick

SpecMN == InitMN /\ [][NextMN]_vars

\* the timer fires and the task runs when its tick is due; time passes
SpecMNFair ==
    SpecMN /\ WF_vars(MN_First) /\ WF_vars(MN_Sweep) /\ WF_vars(Tick)

(***************************************************************************)
(* Claims about the session table, checked under SpecSM                    *)
(***************************************************************************)
LiveAt(i) == SESSIONS[i].exp > now

\* C1: no two live entries of the session table share an id, so session_id
\* never returns the id of a live session
C1_UniqueLiveIds ==
    \A i, j \in 1 .. Len(SESSIONS) :
        (i # j /\ LiveAt(i) /\ LiveAt(j)) => SESSIONS[i].id # SESSIONS[j].id

\* C7: check_session for an id that session_id last returned at time t, with
\* no check_session or remove of it since, returns true exactly when
\* now < t + SESS_EXP_SECS
C7_ValidUntilExpiry ==
    (last.op = "validate" /\ IsSome(last.made))
        => last.valid = Some(now < Unwrap(last.made) + SESS_EXP_SECS)

\* the session has expired, is still in the table, and is refused
C7_Witness ==
    /\ last.op = "validate"
    /\ IsSome(last.made)
    /\ last.valid = Some(FALSE)
    /\ \E i \in 1 .. Len(SESSIONS) : SESSIONS[i].id = Unwrap(last.tok)

\* what a check_session(id) step that answered res did to the table
SlidOne(id, res) ==
    IF res
    THEN /\ Len(SESSIONS') = Len(SESSIONS)
         /\ \E i \in 1 .. Len(SESSIONS) :
                /\ SESSIONS[i].id = id
                /\ SESSIONS[i].exp > now
                /\ SESSIONS'[i] = SessionItem(id, now + SESS_EXP_SECS)
                /\ \A j \in 1 .. Len(SESSIONS) : j # i => SESSIONS'[j] = SESSIONS[j]
    ELSE SESSIONS' = SESSIONS

\* C8: a check_session that returns true sets the expiry of one entry of
\* that id to now + SESS_EXP_SECS and changes no other entry; one that
\* returns false changes nothing
C8_SlidingRenewal ==
    [][last'.op = "validate"
        => SlidOne(Unwrap(last'.tok), Unwrap(last'.valid))]_vars

\* a session made one second ago was renewed, beside another session
C8_Witness ==
    /\ last.op = "validate"
    /\ last.valid = Some(TRUE)
    /\ IsSome(last.made)
    /\ now > Unwrap(last.made)
    /\ Len(SESSIONS) >= 2

\* what a remove_session_id step for id did to the table
RemovedOnly(id) ==
    LET other(v) == v.id # id
    IN  /\ SESSIONS' = SelectSeq(SESSIONS, other)
        /\ (\A i \in 1 .. Len(SESSIONS) : SESSIONS[i].id # id) => SESSIONS' = SESSIONS

\* C9: remove deletes the entries of the token and nothing else, is a no-op
\* for an absent token, and check_session of a removed id returns false
\* until session_id returns that id again
C9_RemoveIsFinal ==
    [][/\ last'.op = "remove" => RemovedOnly(Unwrap(last'.tok))
       /\ (last'.op = "validate" /\ last'.gone) => last'.valid = Some(FALSE)]_vars

\* a removed id is refused while another session is in the table
C9_Witness ==
    /\ last.op = "validate"
    /\ last.gone
    /\ last.valid = Some(FALSE)
    /\ Len(SESSIONS) >= 1

(***************************************************************************)
(* Claims about the rate limiter, checked under SpecRL and SpecMT          *)
(***************************************************************************)
\* C4: the n-th check_limit call for an ip within one minute returns true
\* exactly when n <= MAX_CURRENT_LIMITING, whatever the spacing of the calls
C4_ThreePerMinute ==
    last.op = "check"
        => last.limit = Some(hist.calls[last.ip] <= MAX_CURRENT_LIMITING)

WindowKey(t) == t \div WindowSecs

\* C5: the first check_limit call after the clock crossed a window boundary
\* returns true for any ip, the table being cleared and the new window
\* stored before the call is counted
C5_FreshWindow ==
    [][(last'.op = "check" /\ WindowKey(now) # WindowKey(STATIS_TIME))
        => /\ last'.limit = Some(TRUE)
           /\ CURRENT_LIMITINGS' = [a \in {last'.ip} |-> 1]
           /\ WindowKey(STATIS_TIME') = WindowKey(now)]_vars

\* an ip that was over its limit in the last minute is let in again
C5_Witness ==
    /\ last.op = "check"
    /\ last.prev > MAX_CURRENT_LIMITING
    /\ last.limit = Some(TRUE)
    /\ hist.calls[last.ip] = 1
    /\ WindowKey(now) = WindowKey(StartTime) + 1

\* C6: the table is cleared only together with an advance of the stored
\* window time: while the stored time stays, no counter is lost or lowered
C6_AtomicReset ==
    [][last'.op = "check"
        => \/ STATIS_TIME' > STATIS_TIME
           \/ /\ STATIS_TIME' = STATIS_TIME
              /\ \A a \in DOMAIN CURRENT_LIMITINGS :
                    /\ a \in DOMAIN CURRENT_LIMITINGS'
                    /\ CURRENT_LIMITINGS'[a] >= CURRENT_LIMITINGS[a]]_vars

(***************************************************************************)
(* Claims about the middleware, under Spec                                 *)
(***************************************************************************)
\* the middleware answered the last request itself, with its denial
Denied ==
    /\ ~last.next
    /\ Resp(last.status, last.code, last.message) = Resp_unauthorized

\* the middleware passed the last request on without looking at it
Bypassed ==
    /\ last.next
    /\ ~last.extract
    /\ last.limit = None
    /\ last.valid = None

\* C2: on a path that requires authentication the middleware runs the
\* handler if and only if get_session_id found a token, check_limit
\* returned true and check_session returned true; otherwise it answers
\* with the 401 denial and the handler does not run
C2_AdmitIffAllThree ==
    (last.op = "request" /\ require_authentication(last.path))
        => /\ last.next <=> /\ IsSome(last.tok)
                            /\ last.limit = Some(TRUE)
                            /\ last.valid = Some(TRUE)
           /\ ~last.next => Denied
           /\ last.next => last.status # Resp_unauthorized.status

\* a request with a live session is admitted to /api/list, and the limiter
\* has refused another one that carried a token
C2_Witness ==
    /\ last.op = "request"
    /\ last.path = PathList
    /\ last.next
    /\ last.code = Resp_ok.code
    /\ Visits(CURRENT_LIMITINGS, last.ip) = MAX_CURRENT_LIMITING

C10_PublicBypass ==
    (last.op = "request" /\ last.path \in {PathPing, PathLogin, PathLogout})
        => Bypassed

\* C10, amended: ping and login (and the paths outside /api/) bypass the
\* middleware, which neither extracts a token nor calls check_limit or
\* check_session for them; logout does not bypass it
C10_PingLoginBypass ==
    last.op = "request"
        => /\ last.path \in {PathPing, PathLogin, PathIndex} => Bypassed
           /\ last.path = PathLogout => last.extract

\* ping is served for an ip that check_limit would refuse in this second
C10_Witness ==
    /\ last.op = "request"
    /\ last.path = PathPing
    /\ Bypassed
    /\ STATIS_TIME = now
    /\ Visits(CURRENT_LIMITINGS, last.ip) > MAX_CURRENT_LIMITING

\* the request just served carried a token of a session that was live, and
\* check_limit let it in
Authenticated ==
    /\ IsSome(last'.tok)
    /\ last'.limit = Some(TRUE)
    /\ \E i \in 1 .. Len(SESSIONS) :
          SESSIONS[i].id = Unwrap(last'.tok) /\ SESSIONS[i].exp > now

\* C11: a logout request that carries no token of a live session, or that
\* check_limit refuses, is answered with the 401 denial and leaves the
\* session table as it is; any other logout request is answered 200
C11_LogoutRequiresAuth ==
    [][(last'.op = "request" /\ last'.path = PathLogout)
        => IF Authenticated
           THEN Resp(last'.status, last'.code, last'.message) = Resp_ok
           ELSE /\ Resp(last'.status, last'.code, last'.message)
                       = Resp_unauthorized
                /\ SESSIONS' = SESSIONS]_vars

\* a logout with the token of a live session is refused by the limiter and
\* the session is still there
C11_Witness ==
    /\ last.op = "request"
    /\ last.path = PathLogout
    /\ last.limit = Some(FALSE)
    /\ last.status = Resp_unauthorized.status
    /\ \E i \in 1 .. Len(SESSIONS) :
          SESSIONS[i].id = Unwrap(last.tok) /\ SESSIONS[i].exp > now

\* C12: whatever made the middleware deny a request (no token or one that
\* does not parse, a refusal of check_limit, a token of no session or of an
\* expired one), the caller gets the same answer: HTTP 401, code 401 and
\* the message "401"
C12_UniformDenial ==
    (last.op = "request" /\ ~last.next)
        => Resp(last.status, last.code, last.message) = Resp_unauthorized

\* the token of an expired session that is still in the table is denied
C12_Witness ==
    /\ last.op = "request"
    /\ last.path = PathList
    /\ ~last.next
    /\ last.valid = Some(FALSE)
    /\ last.status = Resp_unauthorized.status
    /\ \E i \in 1 .. Len(SESSIONS) :
          SESSIONS[i].id = Unwrap(last.tok) /\ SESSIONS[i].exp <= now

\* the last request was a login naming a user other than the database's
WrongUser(l) ==
    /\ l.op = "request" /\ l.path = PathLogin /\ IsSome(l.body)
    /\ Unwrap(l.body).user # dbfile.stem

\* the last request was a login naming the database's user with a password
\* that check_password finds wrong
WrongPass(l) ==
    /\ l.op = "request" /\ l.path = PathLogin /\ IsSome(l.body)
    /\ Unwrap(l.body).user = dbfile.stem
    /\ check_password(dbfile, Unwrap(l.body).pass) = [err |-> "", ok |-> FALSE]

\* C13: a login with a wrong user name (and any password) and a login with
\* the right user name and a wrong password, one after the other against
\* the same database file, get the same answer
C13_GenericLoginFailure ==
    [][(dbfile.exists /\ ((WrongUser(last) /\ WrongPass(last'))
                          \/ (WrongPass(last) /\ WrongUser(last'))))
        => Resp(last'.status, last'.code, last'.message)
               = Resp(last.status, last.code, last.message)]_vars

\* the ids of the entries of a session table
IdsIn(sessions) == {sessions[i].id : i \in 1 .. Len(sessions)}

\* C14: the session table gets a new entry only in a login step whose body
\* names the stem of the existing database file as user and a password that
\* check_password accepts; the entry is appended as the last effect of that
\* login and its token is returned with code 200
C14_SessionsOnlyFromLogin ==
    [][(Len(SESSIONS') > Len(SESSIONS) \/ ~(IdsIn(SESSIONS') \subseteq IdsIn(SESSIONS)))
        => /\ last'.op = "request" /\ last'.path = PathLogin
           /\ IsSome(last'.body)
           /\ dbfile.exists
           /\ Unwrap(last'.body).user = dbfile.stem
           /\ check_password(dbfile, Unwrap(last'.body).pass)
                  = [err |-> "", ok |-> TRUE]
           /\ PASSWORD' = Unwrap(last'.body).pass
           /\ last'.code = Resp_ok.code
           /\ \E id \in Ids :
                 /\ last'.token = format_016x(id)
                 /\ SESSIONS' = Append(SESSIONS,
                                       SessionItem(id, now + SESS_EXP_SECS))]_vars

\* a login has put the session of the token it returned into the table
C14_Witness ==
    /\ last.op = "request"
    /\ last.path = PathLogin
    /\ last.code = Resp_ok.code
    /\ SESSIONS # <<>>
    /\ last.token = format_016x(SESSIONS[Len(SESSIONS)].id)
    /\ SESSIONS[Len(SESSIONS)].exp = now + SESS_EXP_SECS

(***************************************************************************)
(* Claims about the record cache and the file format, under SpecCS         *)
(***************************************************************************)
\* C15: with the cache slot populated, load_database returns the cached
\* records and sets the last-access time to now, whatever the password and
\* whatever the file holds (or whether it exists), without reading the file
C15_WarmLoadIgnoresPassword ==
    [][(last'.op = "load" /\ IsSome(G_RECS))
        => /\ last'.err = ""
           /\ last'.data = Unwrap(G_RECS).data
           /\ ~last'.read
           /\ G_RECS' = Some([data |-> Unwrap(G_RECS).data, time |-> now])]_vars

\* a warm load with a password other than the one the current file was
\* written with returns cached records that the file no longer holds
C15_Witness ==
    /\ last.op = "load"
    /\ ~last.read
    /\ last.err = ""
    /\ IsSome(hist.written)
    /\ last.pw # Unwrap(hist.written).pw
    /\ last.data # Unwrap(hist.written).recs
    /\ IsSome(G_RECS) /\ Unwrap(G_RECS).time > StartTime

\* C17: a load_database call that finds the slot empty reads the file; if
\* it fails (no file, too small, wrong magic, wrong length field, wrong
\* password, payload that does not parse) it returns the error and leaves
\* the slot empty, so that the next call reads and decodes again
C17_FailedLoadStaysCold ==
    [][(last'.op = "load" /\ ~IsSome(G_RECS))
        => /\ last'.read
           /\ last'.err # "" => (G_RECS' = None /\ last'.data = <<>>)
           /\ last'.err = "" => IsSome(G_RECS')]_vars

\* the payload did not parse, for the second time in a row, and the file
\* was read both times
C17_Witness ==
    /\ last.op = "load"
    /\ last.err = "json"
    /\ last.read
    /\ hist.reads = 2
    /\ G_RECS = None

\* the bytes b begin with the magic tag
HasMagic(b) == Len(b) >= MAGIC_LEN /\ \A i \in 1 .. MAGIC_LEN : b[i] = MAGIC[i]

\* the check value stored in b is that of the password p
HasCheck(b, p) == \A i \in 1 .. 16 : b[HEADER_LEN + i] = CheckTextOf[p][i]

\* the error of the first check that b fails with password p, in the order
\* size, magic, length field, check value, payload; "" if it fails none
FirstFailure(b, p) ==
    IF Len(b) < ATTACH_LEN THEN "database size too small"
    ELSE IF ~HasMagic(b) THEN "database is not aidb format"
    ELSE IF read_be32(b) # Len(b) - ATTACH_LEN THEN "database size format error"
    ELSE IF ~HasCheck(b, p) THEN "password error"
    ELSE IF ~from_slice(aes_decrypt(as_bytes(p), SubSeq(b, ATTACH_LEN + 1, Len(b)))).ok
         THEN "json"
    ELSE ""

\* the last step was a load_database that read the existing file
ColdLoad == last.op = "load" /\ last.read /\ dbfile.exists

\* C18: a cold load reports the error of the first check the file fails, in
\* the order size (< 24 bytes), magic, length field, check value, payload;
\* so every file shorter than 24 bytes gets the size error
C18_FirstFailingCheck ==
    ColdLoad
        => /\ last.err = FirstFailure(dbfile.bytes, last.pw)
           /\ Len(dbfile.bytes) < ATTACH_LEN => last.err = "database size too small"

\* a file whose length field and check value are both wrong gets the error
\* of the length field
C18_Witness ==
    /\ ColdLoad
    /\ last.err = "database size format error"
    /\ HasMagic(dbfile.bytes)
    /\ ~HasCheck(dbfile.bytes, last.pw)

\* C19 as stated: a file that does not begin with the magic tag gets the
\* format error whatever its length
C19_NoMagicIsFormatError ==
    (ColdLoad /\ ~HasMagic(dbfile.bytes))
        => last.err = "database is not aidb format"

\* C19, amended: a file of at least 24 bytes that does not begin with the
\* magic tag gets the format error whatever else it holds; a shorter one
\* gets the size error
C19_NoMagicAfterSize ==
    (ColdLoad /\ ~HasMagic(dbfile.bytes))
        => last.err = IF Len(dbfile.bytes) >= ATTACH_LEN
                      THEN "database is not aidb format"
                      ELSE "database size too small"

\* a file without the magic tag whose length field is wrong as well gets
\* the format error
C19_Witness ==
    /\ ColdLoad
    /\ ~HasMagic(dbfile.bytes)
    /\ Len(dbfile.bytes) >= ATTACH_LEN
    /\ read_be32(dbfile.bytes) # Len(dbfile.bytes) - ATTACH_LEN
    /\ last.err = "database is not aidb format"

\* C20: a cold load with the password encrypt_database was given returns
\* the record set encrypt_database was given: the same records in the same
\* order, the empty set included
C20_RoundTrip ==
    (ColdLoad /\ IsSome(hist.written) /\ last.pw = Unwrap(hist.written).pw)
        => /\ last.err = ""
           /\ last.data = Unwrap(hist.written).recs

\* two records, one of them with characters that need escapes, come back
\* in the order they were written
C20_Witness ==
    /\ ColdLoad
    /\ IsSome(hist.written)
    /\ last.pw = Unwrap(hist.written).pw
    /\ last.data = <<Rec2, Rec1>>
    /\ Unwrap(G_RECS).data = <<Rec2, Rec1>>

\* C16: when several load() calls for the valid file and its password
\* overlap, the one that finds the slot empty reads and decodes the file and
\* fills the slot, no other call reads the file while the slot is populated,
\* the slot goes from empty to populated only by such a decode, and all the
\* calls that have returned hold the same record set, the cached one.
C16_DecodeOnce ==
    [][/\ (\E t \in Threads : pc[t] = "load_cold" /\ pc'[t] = "load_done"
                                 /\ loc'[t].read)
            <=> (~IsSome(G_RECS) /\ IsSome(G_RECS'))
       /\ \A t \in Threads :
            (pc[t] = "load_held" /\ pc'[t] = "load_done") => ~loc'[t].read
       /\ \A t \in Threads :
            (pc[t] \in Holding /\ pc'[t] = "load_done")
                => /\ loc'[t].err = ""
                   /\ loc'[t].data = Unwrap(G_RECS').data
                   /\ \A u \in Threads :
                        pc'[u] = "load_done" => loc'[u].data = loc'[t].data
      ]_vars

\* two calls made while the slot was empty have both returned: one decoded
\* the file, the other was served from the slot
C16_Witness ==
    \E t \in Threads, u \in Threads :
        /\ t # u
        /\ pc[t] = "load_done" /\ pc[u] = "load_done"
        /\ loc[t].cold /\ loc[u].cold
        /\ loc[t].read /\ ~loc[u].read
        /\ loc[t].data = <<Rec1, Rec2>> /\ loc[u].data = <<Rec1, Rec2>>

\* C21: a cold load of a file encrypt_database wrote with one password,
\* made with another password, fails with the password error, returns no
\* records and leaves the slot empty
C21_WrongKey ==
    (ColdLoad /\ IsSome(hist.written) /\ last.pw # Unwrap(hist.written).pw)
        => /\ last.err = "password error"
           /\ last.data = <<>>
           /\ G_RECS = None

\* the file holds two records under "correct" and was loaded with "wrong"
C21_Witness ==
    /\ ColdLoad
    /\ hist.written = Some([recs |-> <<Rec1, Rec2>>, pw |-> "correct"])
    /\ last.pw = "wrong"
    /\ last.err = "password error"
    /\ G_RECS = None

(***************************************************************************)
(* Claims about the list endpoint, checked under SpecLS                    *)
(***************************************************************************)
\* s = a \o q \o b for some a and b
Within(q, s) ==
    \E a \in 0 .. Len(s), b \in 0 .. Len(s) :
        /\ a + Len(q) + b = Len(s)
        /\ \A k \in 1 .. Len(q) : s[a + k] = q[k]

\* the record is one a search for q finds: q is within its title, url or notes
Found(r, q) == Within(q, r.title) \/ Within(q, r.url) \/ Within(q, r.notes)

\* the last step was a list request answered with code 200
Listed == last.op = "list" /\ last.code = 200

\* C22: list answered with code 200 returns, in their stored order, the
\* cached records whose title, url or notes contains q when the body has a
\* q, and all cached records when it has none; total is their number
C22_ListFilter ==
    Listed
        => /\ IsSome(G_RECS)
           /\ last.total = Len(last.data)
           /\ LET body == Unwrap(last.body)
                  recs == Unwrap(G_RECS).data
              IN  last.data =
                    IF IsSome(body.q)
                    THEN SelectSeq(recs, LAMBDA r : Found(r, Unwrap(body.q)))
                    ELSE recs

\* a search for the user name of the first record, which is in no title,
\* url or notes, finds nothing among two cached records
C22_Witness ==
    /\ Listed
    /\ Unwrap(last.body).q = Some(<<97, 108>>)
    /\ Unwrap(G_RECS).data = <<Rec1, Rec2>>
    /\ last.data = <<>>
    /\ last.total = 0

(***************************************************************************)
(* More claims about the middleware, under Spec                            *)
(***************************************************************************)
\* the header value is "session " followed by one or more hexadecimal digits
HexForm(auth) ==
    /\ IsSome(auth)
    /\ Len(Unwrap(auth)) > Len(SESSION)
    /\ SubSeq(Unwrap(auth), 1, Len(SESSION)) = SESSION
    /\ \A i \in Len(SESSION) + 1 .. Len(Unwrap(auth)) :
          IsHexDigit(Unwrap(auth)[i])

\* C23: a request to a path that requires authentication, without an
\* Authorization header or with one that is not "session " followed by
\* hexadecimal digits, is answered with the 401 denial and its handler does
\* not run
C23_NoTokenDenied ==
    (last.op = "request" /\ require_authentication(last.path)
        /\ ~HexForm(last.auth))
        => Denied

LivePos(s, t) == {i \in 1 .. Len(s) : s[i].exp > t}

\* the k-th smallest element of the set of positions P
Nth(P, k) == CHOOSE i \in P : Cardinality({j \in P : j <= i}) = k

\* C25: recycle keeps the entries with exp > now, as they are and in their
\* order, and removes every other; it removes no entry that check_session
\* would accept at that instant and keeps none that check_session would
\* refuse, so check_session answers the same before and after it
C25_ReclaimExactlyExpired ==
    [][last'.op = "recycle"
        => /\ Len(SESSIONS') = Cardinality(LivePos(SESSIONS, now))
           /\ \A k \in 1 .. Len(SESSIONS') :
                SESSIONS'[k] = SESSIONS[Nth(LivePos(SESSIONS, now), k)]
           /\ \A id \in Ids :
                check_session(SESSIONS', id, now).res
                    = check_session(SESSIONS, id, now).res
           /\ \A k \in 1 .. Len(SESSIONS') :
                check_session(SESSIONS', SESSIONS'[k].id, now).res
      ]_vars

\* the sweep has removed a session at the very second of its expiry and
\* kept a younger one
C25_Witness ==
    /\ last.op = "recycle"
    /\ Len(SESSIONS) = 1
    /\ SESSIONS[1].exp = now + 1
    /\ \E id \in Ids :
          /\ hist.made[id] = Some(now - SESS_EXP_SECS)
          /\ SESSIONS[1].id # id

(***************************************************************************)
(* Claims about the sweep of the cache slot, under SpecCM                  *)
(***************************************************************************)
\* C26: the slot is cleared only by recycle_cache, and only when the time
\* since the last access is strictly greater than the expiry: never within
\* the expiry of the last load_database that returned records. Clearing it
\* leaves the record sets that callers hold as they are, and a populated
\* slot whose idle time is within the expiry stays populated
C26_EvictOnlyIdle ==
    [][/\ (IsSome(G_RECS) /\ ~IsSome(G_RECS'))
            => /\ last'.op = "evict"
               /\ now - Unwrap(G_RECS).time > CacheExpire
               /\ IsSome(hist.access)
               /\ now - Unwrap(hist.access) > CacheExpire
               /\ \A t \in Threads :
                    pc[t] = "load_done"
                        => (pc'[t] = "load_done" /\ loc'[t] = loc[t])
       /\ (IsSome(G_RECS) /\ now - Unwrap(G_RECS).time <= CacheExpire)
            => IsSome(G_RECS')
      ]_vars

\* the sweep has cleared the slot one second after the expiry of the last
\* load, while a caller still holds the records that load returned
C26_Witness ==
    /\ last.op = "evict"
    /\ G_RECS = None
    /\ hist.access = Some(now - CacheExpire - 1)
    /\ \E t \in Threads :
          pc[t] = "load_done" /\ loc[t].data = <<Rec1, Rec2>>

(***************************************************************************)
(* More claims about the record cache, under SpecCS                        *)
(***************************************************************************)
\* C27: the slot holds at most one entry; it goes from empty to populated
\* only by a load_database that read the file and decoded it without
\* error, taking the decoded records; from populated to empty only by
\* recycle_cache; and while it stays populated its records stay the same,
\* whatever is loaded or written meanwhile
C27_SlotLifecycle ==
    [][/\ Len(G_RECS') <= 1
       /\ (~IsSome(G_RECS) /\ IsSome(G_RECS'))
            => /\ last'.op = "load" /\ last'.read /\ last'.err = ""
               /\ dbfile.exists
               /\ DecodeOf[dbfile.bytes][last'.pw].err = ""
               /\ Unwrap(G_RECS').data = DecodeOf[dbfile.bytes][last'.pw].recs
       /\ (IsSome(G_RECS) /\ ~IsSome(G_RECS')) => last'.op = "evict"
       /\ (IsSome(G_RECS) /\ IsSome(G_RECS'))
            => Unwrap(G_RECS').data = Unwrap(G_RECS).data
      ]_vars

\* the file was replaced while the slot was populated, and a load with a
\* password that does not open the new file has left the slot as it was
C27_Witness ==
    /\ last.op = "load"
    /\ IsSome(G_RECS)
    /\ dbfile.exists
    /\ DecodeOf[dbfile.bytes][last.pw].err = "password error"
    /\ IsSome(hist.written)
    /\ Unwrap(G_RECS).data # Unwrap(hist.written).recs

(***************************************************************************)
(* Claims about the periodic task, under SpecMNFair                        *)
(***************************************************************************)
\* the entries a session can have in the model
Entries ==
    {SessionItem(id, exp) :
        id \in Ids, exp \in StartTime + SESS_EXP_SECS .. MaxTime + SESS_EXP_SECS}

\* the entry e is in the table
InTable(e) == \E i \in 1 .. Len(SESSIONS) : SESSIONS[i] = e

\* the next sweep of the periodic task is due before the clock of the model
\* stops
SweepAhead ==
    (IF pc[Task] = "first" THEN loc[Task].due + TaskInterval
     ELSE loc[Task].due) <= MaxTime

\* C28: with the periodic task running, an entry of the session table whose
\* expiry has passed (check_session does not renew it any more) is
\* eventually not in the table; stated for the entries expired while a sweep
\* is still due within the MaxTime seconds the clock of the model runs
C28_ExpiredEventuallyGone ==
    \A e \in Entries :
        (InTable(e) /\ e.exp <= now /\ SweepAhead) ~> ~InTable(e)

\* a session has expired and is still in the table; the task is in its
\* loop, having swept the table at least once
C28_Witness ==
    /\ Len(SESSIONS) = 1
    /\ SESSIONS[1].exp <= now
    /\ pc[Task] = "loop"
    /\ loc[Task].due > StartTime + TaskInterval

\* the task is making one turn of its loop in this step
Sweeping == pc[Task] = "loop" /\ loc'[Task].due # loc[Task].due

\* C29: with the periodic task running, a populated slot whose idle time
\* exceeds CacheExpire is eventually cleared unless it is loaded again; a
\* sweep clears the slot exactly when its idle time exceeds CacheExpire;
\* the first tick of the interval sweeps nothing, and no sweep runs before
\* one interval has passed since the start of the process; the liveness part
\* is stated for the slots idle while a sweep is still due within the MaxTime
\* seconds the clock of the model runs
C29_IdleCacheEventuallyCleared ==
    /\ \A T \in StartTime .. MaxTime :
          (IsSome(G_RECS) /\ Unwrap(G_RECS).time = T /\ now - T > CacheExpire
             /\ SweepAhead)
            ~> (~IsSome(G_RECS) \/ Unwrap(G_RECS).time # T)
    /\ [][/\ (Sweeping /\ IsSome(G_RECS))
                => (IsSome(G_RECS') <=> now - Unwrap(G_RECS).time <= CacheExpire)
          /\ Sweeping => now >= StartTime + TaskInterval
          /\ (pc[Task] = "first" /\ pc'[Task] # "first")
                => (G_RECS' = G_RECS /\ SESSIONS' = SESSIONS)
      ]_vars

\* the sweep has cleared the slot at the first second at which the records,
\* loaded as the process started, had been idle for longer than CacheExpire
C29_Witness ==
    /\ last.op = "maintenance"
    /\ G_RECS = None
    /\ hist.access = Some(StartTime)
    /\ now = StartTime + CacheExpire + 1

(***************************************************************************)
(* The token conversions on their own: session_id formats an id, and       *)
(* get_session_id reads it back from the Authorization header              *)
(***************************************************************************)
\* ids with every digit value at every position up to 16^MaxShift, ids of
\* all-f digits, and the largest id the checker's integers hold
TokenIds ==
    {d * 16 ^ k : d \in 0 .. 15, k \in 0 .. MaxShift}
      \cup {16 ^ k - 1 : k \in 1 .. MaxShift + 1}
      \cup {2147483647}

\* Ok(format!("{:016x}", id)), the last statement of session_id
TK_Format(id) ==
    /\ last' = [NoLast EXCEPT !.op = "format", !.id = Some(id),
                              !.token = format_016x(id)]
    /\ UNCHANGED <<now, dbfile, PASSWORD, G_RECS, SESSIONS, STATIS_TIME,
                   CURRENT_LIMITINGS, pc, loc, hist>>

\* get_session_id on the header a client builds from the token it was given
TK_Extract ==
    /\ last.op = "format"
    /\ LET auth == Some(SESSION \o last.token)
       IN  last' = [last EXCEPT !.op = "extract", !.auth = auth,
                                !.tok = get_session_id(auth)]
    /\ UNCHANGED <<now, dbfile, PASSWORD, G_RECS, SESSIONS, STATIS_TIME,
                   CURRENT_LIMITINGS, pc, loc, hist>>

NextTK == (\E id \in TokenIds : TK_Format(id)) \/ TK_Extract

SpecTK == InitSM /\ [][NextTK]_vars

\* C30: the token made for an id is exactly 16 lowercase hexadecimal
\* digits, and reading it back from the header "session " + token yields
\* the same id, for ids with leading zero digits as for the others
C30_TokenRoundTrip ==
    /\ last.op \in {"format", "extract"} =>
         /\ Len(last.token) = TokenWidth
         /\ \A i \in 1 .. Len(last.token) :
              \E k \in 1 .. 16 : LowerHex[k] = last.token[i]
    /\ last.op = "extract" => last.tok = last.id

\* an id with leading zero digits and a letter digit was formatted and read back
C30_Witness ==
    /\ last.op = "extract"
    /\ last.id = Some(10 * 16 ^ MaxShift)
    /\ last.tok = last.id
    /\ last.token[1] = "0"
    /\ \E i \in 1 .. TokenWidth : last.token[i] = "a"

(***************************************************************************)
(* SpecDC: the dispatch chain of the http server, step by step: main       *)
(* registers the middlewares, then each request walks Next::run through    *)
(* them to the endpoint and the answer returns through the callers.        *)
(***************************************************************************)
Server == -1

\* HttpServer::new(use_access_log): the middlewares of the new server
new(use_access_log) == IF use_access_log THEN <<"AccessLog">> ELSE <<>>

\* HttpServer::middleware
middleware(middlewares, m) == Append(middlewares, m)

\* Next::run calling itself with the whole slice again
Next_run_again(next_middleware) ==
    IF next_middleware # <<>>
    THEN [current |-> Some(Head(next_middleware)), next |-> next_middleware]
    ELSE [current |-> None, next |-> <<>>]

\* Next::run: split_first of the remaining middlewares; None is the endpoint
Next_run(next_middleware) ==
    IF next_middleware # <<>>
    THEN [current |-> Some(Head(next_middleware)), next |-> Tail(next_middleware)]
    ELSE [current |-> None, next |-> <<>>]

\* the requests on their way through the chain
InFlight == {t \in Threads : pc[t] # "idle"}

\* let mut srv = HttpServer::new("/api/", true)
DC_New ==
    /\ pc[Server] = "new"
    /\ pc' = [pc EXCEPT ![Server] = "middleware"]
    /\ loc' = [loc EXCEPT ![Server].middlewares = new(TRUE)]
    /\ UNCHANGED <<now, dbfile, PASSWORD, G_RECS, SESSIONS, STATIS_TIME,
                   CURRENT_LIMITINGS, hist, last>>

\* srv.middleware(apis::Authentication), then srv.run(addr)
DC_Middleware ==
    /\ pc[Server] = "middleware"
    /\ pc' = [pc EXCEPT ![Server] = "run"]
    /\ loc' = [loc EXCEPT ![Server].middlewares = middleware(@, "Authentication")]
    /\ UNCHANGED <<now, dbfile, PASSWORD, G_RECS, SESSIONS, STATIS_TIME,
                   CURRENT_LIMITINGS, hist, last>>

\* service_fn: a request arrives, Next is built over all the middlewares;
\* the requests are taken one at a time, the chain of a request being data
\* of its own
DC_Accept(t, path, auth, client, body) ==
    /\ pc[Server] = "run"
    /\ pc[t] = "idle"
    /\ path = PathLogin <=> body # None
    /\ path = PathLogin => auth = None
    /\ InFlight = {}
    /\ (path = PathLogin /\ accepts(body)) => Len(SESSIONS) < MaxLogins
    /\ \E ip \in {get_remote_ip(client.xreal, client.addr)} :
          /\ Visits(CURRENT_LIMITINGS, ip) < MaxVisits
          /\ loc' = [loc EXCEPT ![t] =
                        [path |-> path, auth |-> auth, ip |-> ip, body |-> body,
                         next_middleware |-> loc[Server].middlewares,
                         mw |-> handle(PathPing, None, ip),
                         trace |-> <<>>, waiting |-> <<>>,
                         res |-> Resp_ok]]
    /\ pc' = [pc EXCEPT ![t] = "next_run"]
    /\ UNCHANGED <<now, dbfile, PASSWORD, G_RECS, SESSIONS, STATIS_TIME,
                   CURRENT_LIMITINGS, hist, last>>

\* Next::run
DC_NextRun(t) ==
    /\ pc[t] = "next_run"
    /\ \E r \in {Next_run(loc[t].next_middleware)} :
          /\ pc' = [pc EXCEPT ![t] = IF IsSome(r.current) THEN Unwrap(r.current)
                                     ELSE "endpoint"]
          /\ loc' = [loc EXCEPT ![t].next_middleware = r.next]
    /\ UNCHANGED <<now, dbfile, PASSWORD, G_RECS, SESSIONS, STATIS_TIME,
                   CURRENT_LIMITINGS, hist, last>>

\* AccessLog::handle up to next.run(ctx).await
DC_AccessLog(t) ==
    /\ pc[t] = "AccessLog"
    /\ pc' = [pc EXCEPT ![t] = "next_run"]
    /\ loc' = [loc EXCEPT ![t].trace = Append(@, "AccessLog"),
                          ![t].waiting = Append(@, "AccessLog")]
    /\ UNCHANGED <<now, dbfile, PASSWORD, G_RECS, SESSIONS, STATIS_TIME,
                   CURRENT_LIMITINGS, hist, last>>

\* Authentication::handle: return next.run(ctx).await, or the 401 answer
DC_Authentication(t) ==
    /\ pc[t] = "Authentication"
    /\ \E mw \in {handle(loc[t].path, loc[t].auth, loc[t].ip)} :
          /\ STATIS_TIME' = mw.statis
          /\ CURRENT_LIMITINGS' = mw.limits
          /\ SESSIONS' = mw.sessions
          /\ pc' = [pc EXCEPT ![t] = IF mw.next THEN "next_run" ELSE "return"]
          /\ loc' = [loc EXCEPT ![t].trace = Append(@, "Authentication"),
                                ![t].mw = mw,
                                ![t].res = mw.resp]
          /\ last' = IF mw.next THEN last
                     ELSE Seen(loc[t].path, loc[t].auth, loc[t].ip, mw,
                               mw.resp, <<>>)
    /\ UNCHANGED <<now, dbfile, PASSWORD, G_RECS, hist>>

\* (self.endpoint).handle(ctx).await
DC_Endpoint(t) ==
    /\ pc[t] = "endpoint"
    /\ \E draws \in IF loc[t].path = PathLogin /\ accepts(loc[t].body)
                    THEN Draws ELSE {NoDraws} :
          Endpoint(loc[t].path, loc[t].auth, loc[t].ip,
                   [loc[t].mw EXCEPT !.sessions = SESSIONS], loc[t].body, draws)
    /\ pc' = [pc EXCEPT ![t] = "return"]
    /\ loc' = [loc EXCEPT ![t].trace = Append(@, "endpoint"),
                          ![t].res = Resp(last'.status, last'.code, last'.message)]
    /\ UNCHANGED <<now, dbfile, STATIS_TIME, CURRENT_LIMITINGS, hist>>

\* the answer returns: to AccessLog::handle after its next.run, which logs
\* it and returns it, and at last to service_fn
DC_Return(t) ==
    /\ pc[t] = "return"
    /\ IF loc[t].waiting # <<>>
       THEN /\ loc' = [loc EXCEPT ![t].waiting =
                          SubSeq(@, 1, Len(@) - 1)]
            /\ UNCHANGED pc
       ELSE /\ loc' = [loc EXCEPT ![t] = IdleLoc]
            /\ pc' = [pc EXCEPT ![t] = "idle"]
    /\ UNCHANGED <<now, dbfile, PASSWORD, G_RECS, SESSIONS, STATIS_TIME,
                   CURRENT_LIMITINGS, hist, last>>

InitDC ==
    /\ now = StartTime
    /\ dbfile = ValidFile
    /\ PASSWORD = ""
    /\ G_RECS = None
    /\ SESSIONS = <<>>
    /\ STATIS_TIME = 0
    /\ CURRENT_LIMITINGS = << >>
    /\ pc = [t \in Threads \cup {Server} |->
                IF t = Server THEN "new" ELSE "idle"]
    /\ loc = [t \in Threads \cup {Server} |->
                IF t = Server THEN [middlewares |-> <<>>] ELSE IdleLoc]
    /\ hist = NoHist
    /\ last = NoLast

\* the requests of the clients
DC_Request(t) ==
    \E path \in Paths, auth \in {None, TokenHeader(0)}, client \in Peers,
       body \in {None, Some([user |-> "alice", pass |-> "correct"]),
                 Some([user |-> "alice", pass |-> "wrong"])} :
        DC_Accept(t, path, auth, client, body)

NextDC ==
    \/ DC_New
    \/ DC_Middleware
    \/ \E t \in Threads :
          \/ DC_Request(t)
          \/ DC_NextRun(t)
          \/ DC_AccessLog(t)
          \/ DC_Authentication(t)
          \/ DC_Endpoint(t)
          \/ DC_Return(t)

SpecDC == InitDC /\ [][NextDC]_vars

\* the handlers of the chain in the order main registered them, then the
\* endpoint
ChainOrder == loc[Server].middlewares \o <<"endpoint">>

\* C31: the handlers a request has run are an initial part of the registered
\* middlewares in registration order followed by the endpoint (so each runs
\* at most once, and the endpoint only after every middleware went on to
\* next.run); main registers AccessLog, then Authentication; once a handler
\* has returned without next.run, no later handler runs for the request
C31_DispatchChain ==
    /\ pc[Server] = "run"
         => loc[Server].middlewares = <<"AccessLog", "Authentication">>
    /\ \A t \in InFlight :
          /\ Len(loc[t].trace) <= Len(ChainOrder)
          /\ loc[t].trace = SubSeq(ChainOrder, 1, Len(loc[t].trace))
          /\ pc[t] = "return" =>
                /\ loc[t].next_middleware = <<>>
                /\ ~loc[t].mw.next => loc[t].trace = loc[Server].middlewares
                /\ loc[t].mw.next => loc[t].trace = ChainOrder

\* Authentication has answered a request to /api/list itself: AccessLog and
\* Authentication ran, the endpoint did not
C31_Witness ==
    \E t \in InFlight :
        /\ pc[t] = "return"
        /\ loc[t].path = PathList
        /\ loc[t].trace = <<"AccessLog", "Authentication">>
        /\ loc[t].res = Resp_unauthorized

(***************************************************************************)
(* SpecLF: the length field of the file on its own: encrypt_database       *)
(* writes it, load_database and check_password read it.                    *)
(***************************************************************************)
\* cipher text lengths: the low, middle and high byte values at each of the
\* four positions, in every combination, up to the largest length the
\* checker's integers hold (2^31 - 1)
Lengths ==
    {((b3 * 256 + b2) * 256 + b1) * 256 + b0 :
        b3 \in {0, 1, 127}, b2 \in {0, 1, 127, 128, 255},
        b1 \in {0, 1, 127, 128, 255}, b0 \in {0, 1, 127, 128, 255}}

\* recs_json.len() after aes_encrypt, for every record set and password of
\* the model, tabulated
CipherLenOf ==
    [recs \in RecordSets |->
        [p \in Passwords |-> Len(aes_encrypt(as_bytes(p), to_vec(recs)))]]

\* encrypt_database: recs_json.len() as the 4 bytes behind the magic
LF_Write(n) ==
    /\ last.op \in {"none", "read_len"}
    /\ last' = [NoLast EXCEPT !.op = "write_len", !.total = n,
                              !.data = MAGIC \o be32(n)]
    /\ UNCHANGED <<now, dbfile, PASSWORD, G_RECS, SESSIONS, STATIS_TIME,
                   CURRENT_LIMITINGS, pc, loc, hist>>

\* encrypt_database of records: the whole file, with the length of its
\* cipher text
LF_Encrypt(recs, password) ==
    /\ last.op \in {"none", "read_len"}
    /\ last' = [NoLast EXCEPT
                  !.op = "write_file",
                  !.total = CipherLenOf[recs][password],
                  !.data = EncodeOf[recs][password]]
    /\ UNCHANGED <<now, dbfile, PASSWORD, G_RECS, SESSIONS, STATIS_TIME,
                   CURRENT_LIMITINGS, pc, loc, hist>>

\* load_database, check_password: let len = (buf[4] << 24) | ...
LF_Read ==
    /\ last.op \in {"write_len", "write_file"}
    /\ last' = [last EXCEPT !.op = "read_len", !.prev = read_be32(last.data)]
    /\ UNCHANGED <<now, dbfile, PASSWORD, G_RECS, SESSIONS, STATIS_TIME,
                   CURRENT_LIMITINGS, pc, loc, hist>>

NextLF ==
    \/ \E n \in Lengths : LF_Write(n)
    \/ \E recs \in RecordSets, password \in Passwords : LF_Encrypt(recs, password)
    \/ LF_Read

SpecLF == InitSM /\ [][NextLF]_vars

\* C32: the length field of an encoded file is the length of its cipher
\* text, written as 4 bytes most significant first, and the value decode
\* reads from those bytes is that length
C32_LengthField ==
    /\ last.op \in {"write_len", "write_file", "read_len"}
         => /\ \A i \in MAGIC_LEN + 1 .. HEADER_LEN : last.data[i] \in 0 .. 255
            /\ last.data[MAGIC_LEN + 1] * 16777216 + last.data[MAGIC_LEN + 2] * 65536
                 + last.data[MAGIC_LEN + 3] * 256 + last.data[MAGIC_LEN + 4]
               = last.total
    /\ (last.op \in {"write_file", "read_len"} /\ Len(last.data) > HEADER_LEN)
         => last.total = Len(last.data) - ATTACH_LEN
    /\ last.op = "read_len" => last.prev = last.total

\* a length with a byte above 127 in two positions was written and read back
C32_Witness ==
    /\ last.op = "read_len"
    /\ last.total = 255 * 256 + 128
    /\ last.prev = last.total
    /\ last.data = MAGIC \o <<0, 0, 255, 128>>

(***************************************************************************)
(* SpecLK: the four mutexes (PASSWORD, G_RECS, SESSIONS,                   *)
(* CURRENT_LIMITINGS) as the requests and the periodic task take and       *)
(* release them on the multi_thread runtime; a lock is requested in one    *)
(* step and its critical section runs in a later one.                      *)
(***************************************************************************)
\* a guard that is never released
drop_leak(held, lock) == held

\* drop(p), or the guard going out of scope
drop(held, lock) == held \ {lock}

\* the locks thread u holds
Held(u) == IF pc[u] = "idle" THEN {} ELSE loc[u].held

\* Mutex::lock returns when no thread holds the lock
Free(lock) == \A u \in DOMAIN pc : lock \notin Held(u)

\* positions at which a thread is inside Mutex::lock
WaitPcs ==
    {"limit_wait", "session_wait", "pw_wait", "sid_wait", "pass_wait",
     "recs_wait", "remove_wait", "cache_wait", "recycle_wait"}

\* the lock requested at a position, and the position once it is held
Wants(p) ==
    CASE p = "limit_wait" -> "CURRENT_LIMITINGS"
      [] p \in {"session_wait", "sid_wait", "remove_wait", "recycle_wait"}
           -> "SESSIONS"
      [] p \in {"pw_wait", "pass_wait"} -> "PASSWORD"
      [] p \in {"recs_wait", "cache_wait"} -> "G_RECS"

Locked(p) ==
    CASE p = "limit_wait" -> "limit"
      [] p = "session_wait" -> "session"
      [] p = "pw_wait" -> "pw"
      [] p = "sid_wait" -> "sid"
      [] p = "pass_wait" -> "recs_wait"
      [] p = "recs_wait" -> "recs"
      [] p = "remove_wait" -> "remove"
      [] p = "cache_wait" -> "cache"
      [] p = "recycle_wait" -> "recycle"

\* the answer is on its way: the request is over
LK_Done(t) ==
    /\ pc' = [pc EXCEPT ![t] = "idle"]
    /\ loc' = [loc EXCEPT ![t] = IdleLoc]

\* position p is next, with the locks held
LK_Goto(t, p, held) ==
    /\ pc' = [pc EXCEPT ![t] = p]
    /\ loc' = [loc EXCEPT ![t].held = held]

\* a request reaches Authentication::handle
LK_Accept(t, path, auth, client, body) ==
    /\ pc[t] = "idle"
    /\ path = PathLogin <=> body # None
    /\ path = PathLogin => auth = None
    /\ path = PathLogin
         => /\ \A u \in Threads : pc[u] # "idle" => loc[u].path # PathLogin
            /\ accepts(body) => Len(SESSIONS) < MaxLogins
    /\ \E ip \in {get_remote_ip(client.xreal, client.addr)} :
          /\ Visits(CURRENT_LIMITINGS, ip)
               + Cardinality({u \in Threads : pc[u] # "idle"}) < MaxVisits
          /\ loc' = [loc EXCEPT ![t] = [path |-> path, auth |-> auth,
                                        ip |-> ip, body |-> body, held |-> {}]]
    /\ pc' = [pc EXCEPT ![t] = "handle"]
    /\ UNCHANGED <<now, dbfile, PASSWORD, G_RECS, SESSIONS, STATIS_TIME,
                   CURRENT_LIMITINGS, hist, last>>

\* Authentication::handle up to check_limit
LK_Handle(t) ==
    /\ pc[t] = "handle"
    /\ IF ~require_authentication(loc[t].path)
       THEN LK_Goto(t, "endpoint", {})
       ELSE IF ~IsSome(SessionIdOf[loc[t].auth]) THEN LK_Done(t)
       ELSE LK_Goto(t, "limit_wait", {})
    /\ UNCHANGED <<now, dbfile, PASSWORD, G_RECS, SESSIONS, STATIS_TIME,
                   CURRENT_LIMITINGS, hist, last>>

\* Mutex::lock returns
LK_Lock(t) ==
    /\ pc[t] \in WaitPcs
    /\ Free(Wants(pc[t]))
    /\ LK_Goto(t, Locked(pc[t]), loc[t].held \cup {Wants(pc[t])})
    /\ UNCHANGED <<now, dbfile, PASSWORD, G_RECS, SESSIONS, STATIS_TIME,
                   CURRENT_LIMITINGS, hist, last>>

\* check_limit under its lock
LK_Limit(t) ==
    /\ pc[t] = "limit"
    /\ \E r \in {check_limit(CURRENT_LIMITINGS, STATIS_TIME, loc[t].ip, now)} :
          /\ STATIS_TIME' = r.statis
          /\ CURRENT_LIMITINGS' = r.limits
          /\ IF r.res
             THEN LK_Goto(t, "session_wait",
                          drop(loc[t].held, "CURRENT_LIMITINGS"))
             ELSE LK_Done(t)
    /\ UNCHANGED <<now, dbfile, PASSWORD, G_RECS, SESSIONS, hist, last>>

\* check_session under its lock
LK_Session(t) ==
    /\ pc[t] = "session"
    /\ \E r \in {check_session(SESSIONS, Unwrap(SessionIdOf[loc[t].auth]), now)} :
          /\ SESSIONS' = r.sessions
          /\ IF r.res
             THEN LK_Goto(t, "endpoint", drop(loc[t].held, "SESSIONS"))
             ELSE LK_Done(t)
    /\ UNCHANGED <<now, dbfile, PASSWORD, G_RECS, STATIS_TIME,
                   CURRENT_LIMITINGS, hist, last>>

\* the endpoint up to its first lock
LK_Endpoint(t) ==
    /\ pc[t] = "endpoint"
    /\ IF loc[t].path = PathLogin
       THEN IF accepts(loc[t].body) THEN LK_Goto(t, "pw_wait", {})
            ELSE LK_Done(t)
       ELSE IF loc[t].path = PathList THEN LK_Goto(t, "pass_wait", {})
       ELSE IF loc[t].path = PathLogout THEN LK_Goto(t, "remove_wait", {})
       ELSE LK_Done(t)
    /\ UNCHANGED <<now, dbfile, PASSWORD, G_RECS, SESSIONS, STATIS_TIME,
                   CURRENT_LIMITINGS, hist, last>>

\* login: the password is stored, drop(p)
LK_Password(t) ==
    /\ pc[t] = "pw"
    /\ PASSWORD' = Unwrap(loc[t].body).pass
    /\ LK_Goto(t, "sid_wait", drop(loc[t].held, "PASSWORD"))
    /\ UNCHANGED <<now, dbfile, G_RECS, SESSIONS, STATIS_TIME,
                   CURRENT_LIMITINGS, hist, last>>

\* login: session_id under its lock
LK_SessionId(t) ==
    /\ pc[t] = "sid"
    /\ \E draws \in Draws :
          SESSIONS' = session_id(SESSIONS, draws, now).sessions
    /\ drop(loc[t].held, "SESSIONS") = {}
    /\ LK_Done(t)
    /\ UNCHANGED <<now, dbfile, PASSWORD, G_RECS, STATIS_TIME,
                   CURRENT_LIMITINGS, hist, last>>

\* list: load_database under G_RECS while `pass` holds PASSWORD; both guards
\* end with the function
LK_Load(t) ==
    /\ pc[t] = "recs"
    /\ G_RECS' = load_database(G_RECS, dbfile, PASSWORD, now).cache
    /\ drop(drop(loc[t].held, "G_RECS"), "PASSWORD") = {}
    /\ LK_Done(t)
    /\ UNCHANGED <<now, dbfile, PASSWORD, SESSIONS, STATIS_TIME,
                   CURRENT_LIMITINGS, hist, last>>

\* logout: remove_session_id under its lock
LK_Remove(t) ==
    /\ pc[t] = "remove"
    /\ SESSIONS' = remove_session_id(SESSIONS, loc[t].auth)
    /\ drop(loc[t].held, "SESSIONS") = {}
    /\ LK_Done(t)
    /\ UNCHANGED <<now, dbfile, PASSWORD, G_RECS, STATIS_TIME,
                   CURRENT_LIMITINGS, hist, last>>

\* the periodic task wakes from its sleep of TaskInterval seconds (the clock
\* of the critical sections moves while it sleeps) and goes to recycle_cache
LK_Tick ==
    /\ pc[Task] = "sleep"
    /\ now' = IF now + TaskInterval <= MaxTime THEN now + TaskInterval ELSE now
    /\ LK_Goto(Task, "cache_wait", {})
    /\ UNCHANGED <<dbfile, PASSWORD, G_RECS, SESSIONS, STATIS_TIME,
                   CURRENT_LIMITINGS, hist, last>>

\* the periodic task: recycle_cache under its lock
LK_RecycleCache ==
    /\ pc[Task] = "cache"
    /\ G_RECS' = recycle_cache(G_RECS, CacheExpire, now)
    /\ LK_Goto(Task, "recycle_wait", drop(loc[Task].held, "G_RECS"))
    /\ UNCHANGED <<now, dbfile, PASSWORD, SESSIONS, STATIS_TIME,
                   CURRENT_LIMITINGS, hist, last>>

\* the periodic task: Authentication::recycle under its lock
LK_Recycle ==
    /\ pc[Task] = "recycle"
    /\ SESSIONS' = recycle(SESSIONS, now)
    /\ LK_Goto(Task, "sleep", drop(loc[Task].held, "SESSIONS"))
    /\ UNCHANGED <<now, dbfile, PASSWORD, G_RECS, STATIS_TIME,
                   CURRENT_LIMITINGS, hist, last>>

\* the steps of a request between two locks, and under a lock
LK_Run(t) ==
    \/ LK_Handle(t)
    \/ LK_Limit(t)
    \/ LK_Session(t)
    \/ LK_Endpoint(t)
    \/ LK_Password(t)
    \/ LK_SessionId(t)
    \/ LK_Load(t)
    \/ LK_Remove(t)

\* the steps of the periodic task
LK_Task == LK_Tick \/ LK_RecycleCache \/ LK_Recycle

\* the requests of the clients
LK_Request(t) ==
    \E path \in {PathLogin, PathList, PathLogout}, auth \in {None, TokenHeader(0)},
       client \in Peers,
       body \in {None, Some([user |-> "alice", pass |-> "correct"])} :
        LK_Accept(t, path, auth, client, body)

\* the state after construction, one sleep of the periodic task before the
\* last second of the clock
InitLK ==
    /\ now = MaxTime - TaskInterval
    /\ dbfile = ValidFile
    /\ PASSWORD = ""
    /\ G_RECS = None
    /\ SESSIONS = <<>>
    /\ STATIS_TIME = 0
    /\ CURRENT_LIMITINGS = << >>
    /\ pc = [t \in Threads \cup {Task} |-> IF t = Task THEN "sleep" ELSE "idle"]
    /\ loc = [t \in Threads \cup {Task} |->
                IF t = Task THEN [held |-> {}] ELSE IdleLoc]
    /\ hist = NoHist
    /\ last = NoLast

NextLK ==
    \/ \E t \in Threads : LK_Request(t) \/ LK_Run(t)
    \/ \E t \in Threads \cup {Task} : LK_Lock(t)
    \/ LK_Task

SpecLK == InitLK /\ [][NextLK]_vars

\* the runtime runs every task that can run, and a thread inside
\* Mutex::lock gets the lock when it is free again and again
SpecLKFair ==
    /\ SpecLK
    /\ \A t \in Threads : WF_vars(LK_Run(t))
    /\ WF_vars(LK_Task)
    /\ \A t \in Threads \cup {Task} : SF_vars(LK_Lock(t))

InitLG == Start /\ dbfile \in DbFiles

NextLG == ServeLogin \/ Maintenance \/ Tick

SpecLG == InitLG /\ [][NextLG]_vars

\* the four failures of login: no file, another user name, an error from
\* check_password, a password that does not pass
FailsLogin(req) ==
    \/ ~dbfile.exists
    \/ dbfile.stem # req.user
    \/ check_password(dbfile, req.pass).err # ""
    \/ ~check_password(dbfile, req.pass).ok

\* C34: a login that fails for a missing file, a wrong user name, a wrong
\* password or an error from check_password is answered with a failure and
\* leaves PASSWORD, SESSIONS and G_RECS as they were; PASSWORD changes only in
\* a login whose password check_password accepted, to that password, so it is
\* always empty or a password that passes the check
C34_FailedLoginKeepsState ==
    /\ [][/\ (/\ last'.op = "request"
              /\ last'.path = PathLogin
              /\ IsSome(last'.body)
              /\ FailsLogin(Unwrap(last'.body)))
             => /\ UNCHANGED <<PASSWORD, SESSIONS, G_RECS>>
                /\ last'.code # Resp_ok.code
                /\ last'.token = <<>>
          /\ PASSWORD' # PASSWORD
             => /\ last'.op = "request"
                /\ last'.path = PathLogin
                /\ IsSome(last'.body)
                /\ ~FailsLogin(Unwrap(last'.body))
                /\ PASSWORD' = Unwrap(last'.body).pass]_vars
    /\ [](PASSWORD = ""
            \/ check_password(dbfile, PASSWORD) = [err |-> "", ok |-> TRUE])

\* a login with the wrong password was refused while a password is stored and
\* a session is open
C34_Witness ==
    /\ last.op = "request"
    /\ last.path = PathLogin
    /\ IsSome(last.body)
    /\ Unwrap(last.body).pass = "wrong"
    /\ last.message = "password wrong"
    /\ PASSWORD = "correct"
    /\ Len(SESSIONS) = 1

(***************************************************************************)
(* Claims about the order of the limiter and the session table in the      *)
(* middleware, under Spec                                                  *)
(***************************************************************************)
\* the table holds a live session for the id
Live(id) ==
    \E i \in 1 .. Len(SESSIONS) : SESSIONS[i].id = id /\ SESSIONS[i].exp > now

\* the count of ip after one more check_limit call at the present time
Consumed(ip) ==
    (IF now > STATIS_TIME THEN 0 ELSE Visits(CURRENT_LIMITINGS, ip)) + 1

\* C35: check_limit is asked before check_session: a request that check_limit
\* refuses is denied with the session table unchanged and check_session not
\* called, check_session is called only for a request check_limit let in,
\* and a request on an authenticated path whose token parses but names no
\* live session (unknown or expired) is denied and still adds one to the
\* count of its ip in the limiter's present window
C35_LimiterBeforeSession ==
    [][(last'.op = "request" /\ require_authentication(last'.path))
        => /\ last'.limit = Some(FALSE)
                => /\ UNCHANGED SESSIONS
                   /\ last'.valid = None
                   /\ ~last'.next
           /\ last'.valid # None => last'.limit = Some(TRUE)
           /\ (IsSome(last'.tok) /\ ~Live(Unwrap(last'.tok)))
                => /\ ~last'.next
                   /\ last'.limit # None
                   /\ Visits(CURRENT_LIMITINGS', last'.ip) = Consumed(last'.ip)]_vars

\* check_limit refused a request that carried the token of a live session
\* not yet slid to now + SESS_EXP_SECS: tokens of no session had used up
\* the budget of the second
C35_Witness ==
    /\ last.op = "request"
    /\ last.path = PathList
    /\ last.limit = Some(FALSE)
    /\ Visits(CURRENT_LIMITINGS, last.ip) > MAX_CURRENT_LIMITING
    /\ \E i \in 1 .. Len(SESSIONS) :
          /\ SESSIONS[i].id = Unwrap(last.tok)
          /\ SESSIONS[i].exp > now
          /\ SESSIONS[i].exp < now + SESS_EXP_SECS

\* C36: a request on an authenticated path for which get_session_id finds no
\* token (no Authorization header, or one it cannot parse) is answered with
\* the 401 denial without a call of check_limit or check_session: the counts
\* of the limiter, STATIS_TIME and the session table stay as they are
C36_NoTokenNoCalls ==
    [][(/\ last'.op = "request"
        /\ require_authentication(last'.path)
        /\ ~IsSome(get_session_id(last'.auth)))
        => /\ ~last'.next
           /\ Resp(last'.status, last'.code, last'.message) = Resp_unauthorized
           /\ last'.limit = None
           /\ last'.valid = None
           /\ UNCHANGED <<CURRENT_LIMITINGS, STATIS_TIME, SESSIONS>>]_vars

\* a header that does not parse was denied on /api/list in a second after
\* the one the limiter holds counts for, with a session in the table
C36_Witness ==
    /\ last.op = "request"
    /\ last.path = PathList
    /\ last.auth = Some(SESSION \o <<"g">>)
    /\ last.tok = None
    /\ ~last.next
    /\ now > STATIS_TIME
    /\ Visits(CURRENT_LIMITINGS, last.ip) > 0
    /\ Len(SESSIONS) > 0

(***************************************************************************)
(* The counters of the limiter within one window, under SpecRL             *)
(***************************************************************************)
\* C37: a check_limit call in the window the stored counts belong to (the
\* minute of STATIS_TIME) adds one to the count of its ip, so a count only
\* increases; it returns false when that ip was already refused in the
\* window (its count is above MAX_CURRENT_LIMITING); and it leaves the count
\* of every other ip, and with it the outcome of that ip's next call, as it is
C37_MonotoneIndependent ==
    [][(last'.op = "check" /\ WindowKey(now) = WindowKey(STATIS_TIME))
        => /\ Visits(CURRENT_LIMITINGS', last'.ip)
                = Visits(CURRENT_LIMITINGS, last'.ip) + 1
           /\ Visits(CURRENT_LIMITINGS, last'.ip) > MAX_CURRENT_LIMITING
                => last'.limit = Some(FALSE)
           /\ \A a \in 0 .. NumIps :
                a # last'.ip
                    => Visits(CURRENT_LIMITINGS', a) = Visits(CURRENT_LIMITINGS, a)]_vars

(***************************************************************************)
(* SpecCP: check_password and load_database called with any password       *)
(* against any database file, with the sweep of the slot.                  *)
(***************************************************************************)
\* aidb::check_password(&ac.database, password)
CP_Check(password) ==
    \E r \in {check_password(dbfile, password)} :
        /\ last' = [NoLast EXCEPT !.op = "check_password", !.pw = password,
                       !.err = r.err,
                       !.valid = IF r.err = "" THEN Some(r.ok) ELSE None]
        /\ UNCHANGED <<now, dbfile, PASSWORD, G_RECS, SESSIONS, STATIS_TIME,
                       CURRENT_LIMITINGS, pc, loc, hist>>

NextCP ==
    \/ \E password \in Passwords : CP_Check(password)
    \/ \E password \in Passwords : Load(password)
    \/ Evict
    \/ Tick

SpecCP == InitCS /\ [][NextCP]_vars

\* what load_database returns for the file and password from an empty slot
Cold(password) == load_database(None, dbfile, password, now)

\* C38: check_password returns Ok(true) exactly when the cold load_database
\* passes its size, magic, length-field and check-value tests (it succeeds,
\* or fails later on the payload), Ok(false) exactly when the cold load fails
\* with "password error", and otherwise fails with the error the cold load
\* fails with; and a check_password call leaves the cache slot as it is
C38_CheckAgreesWithLoad ==
    /\ [](last.op = "check_password"
            => /\ last.valid = Some(TRUE) <=> Cold(last.pw).err \in {"", "json"}
               /\ last.valid = Some(FALSE) <=> Cold(last.pw).err = "password error"
               /\ last.valid = None
                    <=> Cold(last.pw).err \in {"io", "database size too small",
                                               "database is not aidb format",
                                               "database size format error"}
               /\ last.valid = None => last.err = Cold(last.pw).err
               /\ last.valid # None => last.err = "")
    /\ [][last'.op = "check_password" => UNCHANGED G_RECS]_vars

\* check_password answered Ok(false) for a file whose records are in the
\* cache slot
C38_Witness ==
    /\ last.op = "check_password"
    /\ last.valid = Some(FALSE)
    /\ Cold(last.pw).err = "password error"
    /\ IsSome(G_RECS)

====
